---- MODULE Spec2Model ----
(***************************************************************************)
(* A model of the ReACT agent loop of src/agent/react_agent.py together    *)
(* with the tool boundary of src/agent/tools/base.py.                      *)
(*                                                                         *)
(* Texts (model replies, conversation contents, observations, the returned *)
(* transcript) are TLA+ strings and the substring tests and the action     *)
(* regular expression are computed character by character.                 *)
(***************************************************************************)
EXTENDS Integers, Sequences, FiniteSets, TLC

(***************************************************************************)
(* Bounds of the model.                                                    *)
(***************************************************************************)
\* the ceiling the agent is constructed with, and the largest override
MaxCeiling == 2
\* number of run_loop invocations in one behaviour
MaxRuns == 2
\* number of model calls in one behaviour, all runs together
MaxTotalCalls == 2
\* number of add_tool and reset() calls in one behaviour
MaxIdleOps == 1
\* the largest number in the expressions given to calculate
MaxOperand == 2
\* the largest retries argument given to make_request
MaxRetries == 3

(***************************************************************************)
(* Text helpers.                                                           *)
(***************************************************************************)
Char(s, i) == SubSeq(s, i, i)

\* Python's `sub in s` on strings
Contains(s, sub) ==
    \E i \in 1..(Len(s) - Len(sub) + 1) : SubSeq(s, i, i + Len(sub) - 1) = sub

StartsWith(s, pre) == Len(s) >= Len(pre) /\ SubSeq(s, 1, Len(pre)) = pre

EndsWith(s, suf) ==
    Len(s) >= Len(suf) /\ SubSeq(s, Len(s) - Len(suf) + 1, Len(s)) = suf

IsPrefix(p, q) == Len(p) <= Len(q) /\ SubSeq(q, 1, Len(p)) = p

UpperChars == "ABCDEFGHIJKLMNOPQRSTUVWXYZ"
LowerChars == "abcdefghijklmnopqrstuvwxyz"

UpperSet == { Char(UpperChars, i) : i \in 1..26 }
LowerSet == { Char(LowerChars, i) : i \in 1..26 }

\* str.lower on the upper case letters
LowerOf ==
    [c \in UpperSet |->
        Char(LowerChars, CHOOSE i \in 1..26 : Char(UpperChars, i) = c)]

IsUpper(c) == c \in UpperSet
IsLower(c) == c \in LowerSet

Lower(c) == IF IsUpper(c) THEN LowerOf[c] ELSE c

\* equality of two texts under re.IGNORECASE
EqIgnoreCase(a, b) ==
    /\ Len(a) = Len(b)
    /\ \A i \in 1..Len(a) : Lower(Char(a, i)) = Lower(Char(b, i))

\* "\n".join(parts)
RECURSIVE JoinWith(_, _)
JoinWith(parts, sep) ==
    IF Len(parts) = 0 THEN ""
    ELSE IF Len(parts) = 1 THEN parts[1]
    ELSE parts[1] \o sep \o JoinWith(Tail(parts), sep)

(***************************************************************************)
(* The action parser: re.search(r"Action: ([a-z_]+): (.+?)(?:\n|$)",       *)
(* response, re.IGNORECASE).                                               *)
(***************************************************************************)
\* the class [a-z_] under re.IGNORECASE
IsNameChar(c) == IsLower(c) \/ IsUpper(c) \/ c = "_"

\* first index >= from that is past the end or holds no name character
NameEnd(s, from) ==
    CHOOSE j \in from..(Len(s) + 1) :
        /\ (j = Len(s) + 1 \/ ~IsNameChar(Char(s, j)))
        /\ \A k \in from..(j - 1) : IsNameChar(Char(s, k))

\* first index >= from that is past the end or holds a newline
LineEnd(s, from) ==
    CHOOSE j \in from..(Len(s) + 1) :
        /\ (j = Len(s) + 1 \/ Char(s, j) = "\n")
        /\ \A k \in from..(j - 1) : Char(s, k) # "\n"

ActionLiteral == "Action: "

\* the pattern matches with its first character at index i
MatchAt(s, i) ==
    /\ i + Len(ActionLiteral) - 1 <= Len(s)
    /\ EqIgnoreCase(SubSeq(s, i, i + Len(ActionLiteral) - 1), ActionLiteral)
    /\ LET n == i + Len(ActionLiteral)
           j == NameEnd(s, n)
       IN  /\ j > n
           /\ j + 1 <= Len(s)
           /\ SubSeq(s, j, j + 1) = ": "
           /\ j + 2 <= Len(s)
           /\ Char(s, j + 2) # "\n"

NoAction == [found |-> FALSE, tool |-> "", args |-> ""]

\* _parse_action returning the last match of the pattern
_parse_action_last_match(response) ==
    LET starts == { i \in 1..Len(response) : MatchAt(response, i) }
    IN  IF starts = {} THEN NoAction
        ELSE LET i == CHOOSE m \in starts : \A o \in starts : m >= o
                 n == i + Len(ActionLiteral)
                 j == NameEnd(response, n)
                 e == LineEnd(response, j + 2)
             IN  [found |-> TRUE,
                  tool  |-> SubSeq(response, n, j - 1),
                  args  |-> SubSeq(response, j + 2, e - 1)]

_parse_action(response) ==
    LET starts == { i \in 1..Len(response) : MatchAt(response, i) }
    IN  IF starts = {} THEN NoAction
        ELSE LET i == CHOOSE m \in starts : \A o \in starts : m <= o
                 n == i + Len(ActionLiteral)
                 j == NameEnd(response, n)
                 e == LineEnd(response, j + 2)
             IN  [found |-> TRUE,
                  tool  |-> SubSeq(response, n, j - 1),
                  args  |-> SubSeq(response, j + 2, e - 1)]

(***************************************************************************)
(* Tools, the registry and the tool boundary (src/agent/tools/base.py).    *)
(* The registry is a Python dict: a sequence of tools with distinct names, *)
(* in insertion order.  A mapping returned by a tool is a sequence of      *)
(* entries <<key, type, text>>, type "str", "num" or "obj" (a value the    *)
(* JSON encoder does not know, such as a datetime).                        *)
(***************************************************************************)
Tool(name, description) == [name |-> name, description |-> description]

\* the tools that are registered in the model
ToolPool ==
    { Tool("calculate", "e.g. calculate: 2 + 2"),
      Tool("get_weather", "e.g. get_weather: London") }

\* the registries the constructor is given
InitialRegistries ==
    { <<>>, << Tool("calculate", "e.g. calculate: 4 * 7") >> }

\* the keys in the reverse of the insertion order
Keys_reversed(d) == [i \in 1..Len(d) |-> d[Len(d) + 1 - i].name]

Keys(d) == [i \in 1..Len(d) |-> d[i].name]

HasKey(d, name) == \E i \in 1..Len(d) : d[i].name = name

\* d[name]
Lookup(d, name) == d[CHOOSE i \in 1..Len(d) : d[i].name = name]

\* d[tool.name] = tool: a new key goes to the end, an existing key keeps
\* its place
DictSet(d, tool) ==
    IF HasKey(d, tool.name)
    THEN [i \in 1..Len(d) |-> IF d[i].name = tool.name THEN tool ELSE d[i]]
    ELSE Append(d, tool)

\* what one call of Tool.execute can do: return a mapping or raise
Returned(mapping) == [kind |-> "return", value |-> mapping, exc |-> ""]
Raised(exc) == [kind |-> "raise", value |-> <<>>, exc |-> exc]

ExecOutcomes ==
    { Returned(<< <<"city", "str", "London">>, <<"temperature", "num", "18.5">> >>),
      Returned(<< <<"timestamp", "obj", "datetime">> >>),
      Raised("ToolExecutionError"),
      Raised("ZeroDivisionError") }

\* a mapping with the single key "error"
ErrorMapping(message) == << <<"error", "str", message>> >>

\* safe_execute without the except clause
safe_execute_propagates(name, args, outcome) == outcome

\* Tool.safe_execute, given what execute did
safe_execute(name, args, outcome) ==
    IF outcome.kind = "return"
    THEN outcome
    ELSE Returned(ErrorMapping(
             "Error executing the tool " \o name \o " with args " \o args))

(***************************************************************************)
(* json.dumps(result, indent=2) on a mapping.                              *)
(***************************************************************************)
Serializable(m) == \A i \in 1..Len(m) : m[i][2] # "obj"

JsonValue(entry) ==
    IF entry[2] = "str" THEN "\"" \o entry[3] \o "\"" ELSE entry[3]

\* json.dumps(result) without indent
JsonDumps_compact(m) ==
    "{"
    \o JoinWith([i \in 1..Len(m) |->
                   "\"" \o m[i][1] \o "\": " \o JsonValue(m[i])], ", ")
    \o "}"

JsonDumps(m) ==
    IF Len(m) = 0 THEN "{}"
    ELSE "{\n"
         \o JoinWith([i \in 1..Len(m) |->
                        "  \"" \o m[i][1] \o "\": " \o JsonValue(m[i])], ",\n")
         \o "\n}"

\* str(e) of the TypeError json.dumps raises on a value it cannot encode
JsonTypeError(m) ==
    "Object of type "
    \o m[CHOOSE i \in 1..Len(m) : m[i][2] = "obj"][3]
    \o " is not JSON serializable"

(***************************************************************************)
(* The prompt builder.                                                     *)
(***************************************************************************)
PromptHead == "You run in a loop of Thought, Action, PAUSE, Observation.\nYour available actions are:\n\n"
PromptTail == "\n\nNow it's your turn."

RECURSIVE ToolsDescription(_)
ToolsDescription(d) ==
    IF Len(d) = 0 THEN ""
    ELSE d[1].name \o ":\n" \o d[1].description \o "\n\n"
         \o ToolsDescription(Tail(d))

_create_system_prompt(d) == PromptHead \o ToolsDescription(d) \o PromptTail

(***************************************************************************)
(* The model boundary (Agent._call_llm).  The provider either answers with *)
(* a text or the call fails with some exception.                           *)
(***************************************************************************)
Replied(text) == [kind |-> "reply", text |-> text, exc |-> ""]
Failed(exc) == [kind |-> "fail", text |-> "", exc |-> exc]

\* the replies the model gives in the model
Replies ==
    { "Answer: Hi there!",
      "Thought: sum\nAction: calculate: 2 + 2\nPAUSE",
      "Action: calculate: 2 + 2\nPAUSE\nAnswer: 4",
      "Action: unknown_tool: x\nPAUSE",
      "Action: Calculate: 2 + 2\nPAUSE",
      "Thought: hmm\nPAUSE",
      "Action: calculate: 2 + 2" }

\* the exceptions the provider call fails with
ProviderFailures == { "APIConnectionError" }

ProviderOutcomes ==
    { Replied(r) : r \in Replies } \cup { Failed(e) : e \in ProviderFailures }

NoError == [type |-> "", message |-> ""]

\* _call_llm letting the provider's exception through
_call_llm_unwrapped(provider) ==
    IF provider.kind = "reply"
    THEN [kind |-> "return", text |-> provider.text, error |-> NoError]
    ELSE [kind |-> "raise", text |-> "",
          error |-> [type |-> provider.exc, message |-> provider.exc]]

\* _call_llm: the reply text, or LLMAPIError for any failure of the call
_call_llm(provider) ==
    IF provider.kind = "reply"
    THEN [kind |-> "return", text |-> provider.text, error |-> NoError]
    ELSE [kind |-> "raise", text |-> "",
          error |-> [type |-> "LLMAPIError",
                     message |-> "Error calling Groq API: " \o provider.exc]]

(***************************************************************************)
(* The fixed texts of run_loop.                                            *)
(***************************************************************************)
AnswerMarker == "Answer:"
PauseMarker == "PAUSE"
ObservationPrefix == "Observation: "
QuestionPrefix == "Question: "
CouldNotParse == "Observation: Could not parse action. Please use the format 'Action: tool_name: arguments'"
ExpectedFormat == "Observation: Expected 'Action: tool_name: arguments' followed by 'PAUSE'. Please follow the format."
ExceededNotice == "\nExceeded maximum iterations without reaching an answer."

Turn(role, content) == [role |-> role, content |-> content]

\* max_iterations = max_iterations or self.max_iterations
EffectiveCeiling(override, configured) ==
    IF override.given /\ override.value # 0 THEN override.value ELSE configured

\* Agent.reset: the conversation it leaves
ResetConversation(prompt) == << Turn("system", prompt) >>

\* StartConversation without the test for an empty conversation
StartConversation_no_seed(msgs, prompt, q, rc) ==
    Append(IF rc THEN ResetConversation(prompt) ELSE msgs,
           Turn("user", QuestionPrefix \o q))

\* StartConversation resetting on every call
StartConversation_always_reset(msgs, prompt, q, rc) ==
    Append(ResetConversation(prompt), Turn("user", QuestionPrefix \o q))

\* StartConversation ignoring reset_conversation
StartConversation_never_reset(msgs, prompt, q, rc) ==
    Append(IF msgs = <<>> THEN ResetConversation(prompt) ELSE msgs,
           Turn("user", QuestionPrefix \o q))

\* the conversation run_loop starts from: reset() when asked to or when
\* there is no conversation yet, then the question
StartConversation(msgs, prompt, q, rc) ==
    Append(IF rc \/ msgs = <<>> THEN ResetConversation(prompt) ELSE msgs,
           Turn("user", QuestionPrefix \o q))

\* the loop condition letting one more iteration run
LoopContinues_inclusive(i, ceiling) == i <= ceiling

\* the loop condition of a loop that only an answer ends
LoopContinues_until_answer(i, ceiling) == TRUE

\* the loop condition
LoopContinues(i, ceiling) == i < ceiling

\* ToolObservation without the except clause
ToolObservation_no_handler(tool_name, result) ==
    IF result.kind = "return" /\ Serializable(result.value)
    THEN [escaped |-> FALSE, error |-> NoError,
          text |-> ObservationPrefix \o JsonDumps(result.value)]
    ELSE [escaped |-> TRUE,
          error |-> IF result.kind = "raise"
                    THEN [type |-> result.exc, message |-> result.exc]
                    ELSE [type |-> "TypeError",
                          message |-> JsonTypeError(result.value)],
          text |-> ""]

\* the try/except around safe_execute and json.dumps in run_loop: the
\* observation text of a dispatch to a registered tool
ToolObservation(tool_name, result) ==
    IF result.kind = "return" /\ Serializable(result.value)
    THEN [escaped |-> FALSE, error |-> NoError,
          text |-> ObservationPrefix \o JsonDumps(result.value)]
    ELSE [escaped |-> FALSE, error |-> NoError,
          text |-> "Observation: Error executing tool '" \o tool_name \o "': "
                   \o (IF result.kind = "raise" THEN result.exc
                       ELSE JsonTypeError(result.value))]

\* Scan looking for the marker "Final Answer:"
Scan_final_answer(response) ==
    [answer |-> Contains(response, "Final Answer:"),
     pause  |-> Contains(response, PauseMarker),
     action |-> _parse_action(response)]

\* Scan giving PAUSE priority over the answer marker
Scan_pause_first(response) ==
    [answer |-> Contains(response, AnswerMarker)
                /\ ~Contains(response, PauseMarker),
     pause  |-> Contains(response, PauseMarker),
     action |-> _parse_action(response)]

\* what run_loop looks for in a reply: the two markers and the action
Scan(response) ==
    [answer |-> Contains(response, AnswerMarker),
     pause  |-> Contains(response, PauseMarker),
     action |-> _parse_action(response)]

\* Scan of every reply of the model, computed once
Scanned == [r \in Replies |-> Scan(r)]

\* Dispatches without the test for PAUSE
Dispatches_without_pause(reg, scan) ==
    scan.action.found /\ HasKey(reg, scan.action.tool)

\* a reply without answer marker makes the iteration call a tool
Dispatches(reg, scan) ==
    scan.pause /\ scan.action.found /\ HasKey(reg, scan.action.tool)

\* Observe with the two corrective texts exchanged
Observe_swapped_correctives(reg, scan, outcome) ==
    IF scan.pause
    THEN IF scan.action.found
         THEN IF HasKey(reg, scan.action.tool)
              THEN ToolObservation(scan.action.tool,
                       safe_execute(Lookup(reg, scan.action.tool).name,
                                    scan.action.args, outcome))
              ELSE [escaped |-> FALSE, error |-> NoError,
                    text |-> "Observation: Tool '" \o scan.action.tool
                             \o "' not found. Available tools: "
                             \o JoinWith(Keys(reg), ", ")]
         ELSE [escaped |-> FALSE, error |-> NoError, text |-> ExpectedFormat]
    ELSE [escaped |-> FALSE, error |-> NoError, text |-> CouldNotParse]

\* the observation an iteration injects after a reply without answer marker;
\* outcome is what execute does if a tool is called
Observe(reg, scan, outcome) ==
    IF scan.pause
    THEN IF scan.action.found
         THEN IF HasKey(reg, scan.action.tool)
              THEN ToolObservation(scan.action.tool,
                       safe_execute(Lookup(reg, scan.action.tool).name,
                                    scan.action.args, outcome))
              ELSE [escaped |-> FALSE, error |-> NoError,
                    text |-> "Observation: Tool '" \o scan.action.tool
                             \o "' not found. Available tools: "
                             \o JoinWith(Keys(reg), ", ")]
         ELSE [escaped |-> FALSE, error |-> NoError, text |-> CouldNotParse]
    ELSE [escaped |-> FALSE, error |-> NoError, text |-> ExpectedFormat]

\* Transcript with the notice on every return
Transcript_always_notice(replies, exceeded) ==
    JoinWith(replies, "\n") \o ExceededNotice

\* the transcript run_loop returns
Transcript(replies, exceeded) ==
    JoinWith(replies, "\n") \o (IF exceeded THEN ExceededNotice ELSE "")

(***************************************************************************)
(* The concrete tools: CalculationTool (src/agent/tools/calculation.py),   *)
(* WeatherTool and ForecastTool (src/agent/tools/weather).  A tool's       *)
(* execute either returns a JSON object or raises an exception with a      *)
(* message.                                                                *)
(***************************************************************************)
\* JSON values: objects are sequences of <<key, value>> pairs in the order
\* of the document, numbers are integers
JStr(s) == [t |-> "str", v |-> s]
JNum(n) == [t |-> "num", v |-> n]
JObj(pairs) == [t |-> "obj", v |-> pairs]
JList(items) == [t |-> "list", v |-> items]
JNull == [t |-> "null", v |-> <<>>]

Returns(value) == [kind |-> "return", value |-> value, exc |-> "", message |-> ""]
Raises(exc, message) ==
    [kind |-> "raise", value |-> JNull, exc |-> exc, message |-> message]

\* the syntax tree ast.parse gives for an expression; Num and Str are the
\* ast.Constant nodes of a number and of a text
Num(n) == [k |-> "Num", n |-> n, s |-> "", kids |-> <<>>]
Str(s) == [k |-> "Str", n |-> 0, s |-> s, kids |-> <<>>]
Name(id) == [k |-> "Name", n |-> 0, s |-> id, kids |-> <<>>]
UnaryOp(op, operand) == [k |-> "UnaryOp", n |-> 0, s |-> op, kids |-> <<operand>>]
BinOp(left, op, right) == [k |-> "BinOp", n |-> 0, s |-> op, kids |-> <<left, right>>]
Call(id) == [k |-> "Call", n |-> 0, s |-> id, kids |-> <<>>]

\* what ast.parse does with the text of the expression
Parsed(node) == [syntax_error |-> FALSE, message |-> "", node |-> node]
SyntaxError(message) == [syntax_error |-> TRUE, message |-> message, node |-> Num(0)]

EvalOk(value) == [ok |-> TRUE, value |-> value, exc |-> "", message |-> ""]
EvalFail(exc, message) == [ok |-> FALSE, value |-> 0, exc |-> exc, message |-> message]

\* the binary operators of OPERATORS that stay within the integers, and the
\* unary one
BinaryOperators == { "Add", "Sub", "Mult", "FloorDiv", "Mod" }
UnaryOperators == { "USub" }

\* operator.floordiv and operator.mod on integers, divisor not 0
PyFloorDiv(a, b) == IF b > 0 THEN a \div b ELSE (0 - a) \div (0 - b)
PyMod(a, b) == a - b * PyFloorDiv(a, b)

\* OPERATORS[type(node.op)](left, right)
ApplyBinary(op, left, right) ==
    IF op = "FloorDiv" /\ right = 0
    THEN EvalFail("ZeroDivisionError", "integer division or modulo by zero")
    ELSE IF op = "Mod" /\ right = 0
    THEN EvalFail("ZeroDivisionError", "integer modulo by zero")
    ELSE EvalOk(CASE op = "Add" -> left + right
                  [] op = "Sub" -> left - right
                  [] op = "Mult" -> left * right
                  [] op = "FloorDiv" -> PyFloorDiv(left, right)
                  [] op = "Mod" -> PyMod(left, right))

\* SafeEval.visit
RECURSIVE SafeEval_visit(_)
SafeEval_visit(node) ==
    CASE node.k = "Num" -> EvalOk(node.n)
      [] node.k = "Str" ->
             EvalFail("ToolExecutionError", "Unsupported constant: " \o node.s)
      [] node.k = "Name" ->
             EvalFail("ToolExecutionError", "Unsupported variable: " \o node.s)
      [] node.k = "UnaryOp" ->
             LET operand == SafeEval_visit(node.kids[1])
             IN  IF ~operand.ok THEN operand
                 ELSE IF node.s \notin UnaryOperators
                 THEN EvalFail("ToolExecutionError",
                               "Unsupported unary operator: " \o node.s)
                 ELSE EvalOk(0 - operand.value)
      [] node.k = "BinOp" ->
             LET left == SafeEval_visit(node.kids[1])
             IN  IF ~left.ok THEN left
                 ELSE LET right == SafeEval_visit(node.kids[2])
                      IN  IF ~right.ok THEN right
                          ELSE IF node.s \notin BinaryOperators
                          THEN EvalFail("ToolExecutionError",
                                        "Unsupported operator: " \o node.s)
                          ELSE ApplyBinary(node.s, left.value, right.value)
      [] OTHER ->
             EvalFail("ToolExecutionError",
                      "Unsupported expression type: " \o node.k)

\* safe_eval: every failure becomes a ToolExecutionError
safe_eval(expr) ==
    IF expr.syntax_error
    THEN EvalFail("ToolExecutionError",
                  "Syntax error in expression: " \o expr.message)
    ELSE LET value == SafeEval_visit(expr.node)
         IN  IF value.ok THEN value
             ELSE EvalFail("ToolExecutionError",
                           "Error evaluating expression: " \o value.message)

\* CalculationTool.execute without its except clause
CalculationTool_execute_no_handler(expr) ==
    LET value == safe_eval(expr)
    IN  IF value.ok
        THEN Returns(JObj(<< <<"result", JNum(value.value)>> >>))
        ELSE Raises(value.exc, value.message)

\* CalculationTool.execute
CalculationTool_execute(expr) ==
    LET value == safe_eval(expr)
    IN  IF value.ok
        THEN Returns(JObj(<< <<"result", JNum(value.value)>> >>))
        ELSE IF value.exc = "ToolExecutionError"
        THEN Returns(JObj(<< <<"error",
                               JStr("Calculation error: " \o value.message)>> >>))
        ELSE Raises(value.exc, value.message)

ItemOk(value) == [ok |-> TRUE, value |-> value, exc |-> "", message |-> ""]
ItemFail(exc, message) ==
    [ok |-> FALSE, value |-> JNull, exc |-> exc, message |-> message]

\* d[key] for a text key
GetItem(d, key) ==
    CASE d.t = "obj" ->
             IF \E i \in 1..Len(d.v) : d.v[i][1] = key
             THEN ItemOk(d.v[CHOOSE i \in 1..Len(d.v) : d.v[i][1] = key][2])
             ELSE ItemFail("KeyError", "'" \o key \o "'")
      [] d.t = "list" ->
             ItemFail("TypeError", "list indices must be integers or slices, not str")
      [] d.t = "str" ->
             ItemFail("TypeError", "string indices must be integers")
      [] d.t = "num" ->
             ItemFail("TypeError", "'int' object is not subscriptable")
      [] OTHER ->
             ItemFail("TypeError", "'NoneType' object is not subscriptable")

\* d[0]
GetFirst(d) ==
    CASE d.t = "list" ->
             IF Len(d.v) > 0 THEN ItemOk(d.v[1])
             ELSE ItemFail("IndexError", "list index out of range")
      [] d.t = "obj" -> ItemFail("KeyError", "0")
      [] d.t = "str" ->
             IF Len(d.v) > 0 THEN ItemOk(JStr(SubSeq(d.v, 1, 1)))
             ELSE ItemFail("IndexError", "string index out of range")
      [] d.t = "num" ->
             ItemFail("TypeError", "'int' object is not subscriptable")
      [] OTHER ->
             ItemFail("TypeError", "'NoneType' object is not subscriptable")

\* a chain of subscripts such as data["weather"][0]["main"]; "[0]" stands
\* for the index 0
RECURSIVE Fetch(_, _)
Fetch(d, path) ==
    IF path = <<>> THEN ItemOk(d)
    ELSE LET item == IF Head(path) = "[0]" THEN GetFirst(d)
                     ELSE GetItem(d, Head(path))
         IN  IF item.ok THEN Fetch(item.value, Tail(path)) ELSE item

PairsOk(pairs) == [ok |-> TRUE, value |-> pairs, exc |-> "", message |-> ""]

\* the entries of a dict display, evaluated in the order they are written;
\* the first subscript that fails ends the evaluation
RECURSIVE Extract(_, _)
Extract(d, fields) ==
    IF fields = <<>> THEN PairsOk(<<>>)
    ELSE LET item == Fetch(d, fields[1][2])
         IN  IF ~item.ok THEN item
             ELSE LET rest == Extract(d, Tail(fields))
                  IN  IF ~rest.ok THEN rest
                      ELSE PairsOk(<< <<fields[1][1], item.value>> >> \o rest.value)

\* BaseWeatherTool._make_weather_request, given the key of the tool and what
\* make_request does
_make_weather_request(api_key, http) ==
    IF api_key = ""
    THEN Raises("ConfigurationError", "OpenWeatherMap API key is required")
    ELSE IF http.kind = "return" THEN http
    ELSE Raises("WeatherAPIError",
                "Failed to fetch weather data: " \o http.message)

\* the except KeyError clause of the two execute methods
UnexpectedFormat(failure) ==
    IF failure.exc = "KeyError"
    THEN Raises("WeatherAPIError",
                "Unexpected API response format: " \o failure.message)
    ELSE Raises(failure.exc, failure.message)

WeatherFields ==
    << <<"city", <<"name">>>>,
       <<"country", <<"sys", "country">>>>,
       <<"temperature", <<"main", "temp">>>>,
       <<"feels_like", <<"main", "feels_like">>>>,
       <<"humidity", <<"main", "humidity">>>>,
       <<"wind_speed", <<"wind", "speed">>>>,
       <<"weather_condition", <<"weather", "[0]", "main">>>>,
       <<"description", <<"weather", "[0]", "description">>>> >>

\* WeatherTool.execute; now is the text of datetime.now()
WeatherTool_execute(api_key, http, now) ==
    LET data == _make_weather_request(api_key, http)
    IN  IF data.kind = "raise" THEN data
        ELSE LET fields == Extract(data.value, WeatherFields)
             IN  IF fields.ok
                 THEN Returns(JObj(fields.value \o << <<"timestamp", JStr(now)>> >>))
                 ELSE UnexpectedFormat(fields)

Pad2(n) == IF n < 10 THEN "0" \o ToString(n) ELSE ToString(n)

\* datetime.fromtimestamp(dt).strftime for the days of January 1970, the
\* local time being UTC
DateStr(dt) == "1970-01-" \o Pad2(dt \div 86400 + 1)
TimeStr(dt) == Pad2((dt % 86400) \div 3600) \o ":" \o Pad2((dt % 3600) \div 60)

ForecastFields ==
    << <<"temperature", <<"main", "temp">>>>,
       <<"feels_like", <<"main", "feels_like">>>>,
       <<"humidity", <<"main", "humidity">>>>,
       <<"weather_condition", <<"weather", "[0]", "main">>>>,
       <<"description", <<"weather", "[0]", "description">>>> >>

\* the number of days a forecast holds
ForecastDays == 5

\* the loop of ForecastTool._process_forecast_data over the items left
RECURSIVE ProcessItems(_, _, _)
ProcessItems(items, dates_processed, forecast_data) ==
    IF items = <<>> THEN ItemOk(JList(forecast_data))
    ELSE LET dt == GetItem(Head(items), "dt")
         IN  IF ~dt.ok THEN dt
             ELSE IF dt.value.t # "num"
             THEN ItemFail("TypeError",
                           "'" \o dt.value.t \o "' object cannot be interpreted as an integer")
             ELSE IF DateStr(dt.value.v) \in dates_processed
             THEN ProcessItems(Tail(items), dates_processed, forecast_data)
             ELSE LET fields == Extract(Head(items), ForecastFields)
                      entry == JObj(<< <<"date", JStr(DateStr(dt.value.v))>>,
                                       <<"time", JStr(TimeStr(dt.value.v))>> >>
                                    \o fields.value)
                  IN  IF ~fields.ok THEN fields
                      ELSE IF Len(forecast_data) + 1 >= ForecastDays
                      THEN ItemOk(JList(Append(forecast_data, entry)))
                      ELSE ProcessItems(Tail(items),
                                        dates_processed \cup { DateStr(dt.value.v) },
                                        Append(forecast_data, entry))

\* ForecastTool._process_forecast_data: iterating a dict gives its keys
_process_forecast_data(forecast_list) ==
    CASE forecast_list.t = "list" -> ProcessItems(forecast_list.v, {}, <<>>)
      [] forecast_list.t = "obj" ->
             ProcessItems([i \in 1..Len(forecast_list.v) |-> JStr(forecast_list.v[i][1])],
                          {}, <<>>)
      [] forecast_list.t = "str" ->
             ProcessItems([i \in 1..Len(forecast_list.v) |->
                              JStr(SubSeq(forecast_list.v, i, i))], {}, <<>>)
      [] forecast_list.t = "num" ->
             ItemFail("TypeError", "'int' object is not iterable")
      [] OTHER ->
             ItemFail("TypeError", "'NoneType' object is not iterable")

\* ForecastTool.execute
ForecastTool_execute(api_key, http) ==
    LET data == _make_weather_request(api_key, http)
    IN  IF data.kind = "raise" THEN data
        ELSE LET list == GetItem(data.value, "list")
                 forecast == _process_forecast_data(list.value)
                 place == Extract(data.value, << <<"city", <<"city", "name">>>>,
                                                 <<"country", <<"city", "country">>>> >>)
             IN  IF ~list.ok THEN UnexpectedFormat(list)
                 ELSE IF ~forecast.ok THEN UnexpectedFormat(forecast)
                 ELSE IF ~place.ok THEN UnexpectedFormat(place)
                 ELSE Returns(JObj(place.value \o << <<"forecast", forecast.value>> >>))

(***************************************************************************)
(* State.                                                                  *)
(***************************************************************************)
VARIABLES
    \* the Agent
    tools,                \* self.tools, the registry
    system_prompt,        \* self.system_prompt
    self_max_iterations,  \* self.max_iterations
    messages,             \* self.messages, the conversation
    \* the current (or last) run_loop invocation
    pc,                   \* "idle", "awaiting_model", "returned", "raised"
    query,                \* its arguments
    callback,
    reset_conversation,
    max_iterations_arg,   \* the max_iterations argument: None or an integer
    max_iterations,       \* the ceiling of this run
    iteration,
    full_response,
    result,               \* the string it returned
    raised,               \* the error it raised
    \* history
    pre_messages,         \* the conversation when run_loop was called
    events,               \* what happened since run_loop was last called:
                          \* model calls, tool calls, callback calls,
                          \* appended turns, reset and add_tool calls
    exec_log,             \* the last safe_execute: what execute did, what came back
    \* counters that bound the behaviours
    runs, total_calls, add_tools, resets,
    \* a concrete tool called on its own
    tool_input,           \* what execute is given and what its collaborators do
    tool_outcome,         \* what execute did
    tool_pc,              \* "ready", "done"
    \* run_loop invocations on threads of their own
    thread,               \* of each thread: where its run_loop is, its
                          \* arguments and its local variables
    authors,              \* of each turn of the conversation: the thread that
                          \* appended it, 0 for the system turn
    appended,             \* of each thread: the turns it appended
    \* _parse_action called on its own
    parse_input,          \* the reply
    parse_result,         \* the action or "no action"
    parse_pc,             \* "ready", "done"
    \* make_request called on its own
    request_retries,      \* the retries argument
    request_attempts,     \* attempts
    request_log,          \* what each HTTP attempt did
    request_pc,           \* "loop", "done"
    request_result,       \* what the call did
    \* the chat application (src/chainlit_app.py)
    chat,                 \* of each message received: its on_message handler
    ready                 \* the event loop's queue of tasks that can run

agent_vars == <<tools, system_prompt, self_max_iterations, messages>>
run_vars == <<pc, query, callback, reset_conversation, max_iterations_arg,
              max_iterations, iteration, full_response, result, raised>>
history_vars == <<pre_messages, events, exec_log>>
bound_vars == <<runs, total_calls, add_tools, resets>>
tool_vars == <<tool_input, tool_outcome, tool_pc>>
thread_vars == <<thread, authors, appended>>
parse_vars == <<parse_input, parse_result, parse_pc>>
request_vars == <<request_retries, request_attempts, request_log, request_pc, request_result>>
chat_vars == <<chat, ready>>
vars == <<chat_vars, request_vars, parse_vars, agent_vars, run_vars, history_vars, bound_vars, tool_vars,
          thread_vars>>

\* the arguments run_loop is called with
Queries == << "hello", "2 + 2?" >>

\* the caller asks the queries in turn
NextQuery == Queries[(runs % Len(Queries)) + 1]

\* the caller passes an observer callback on every other call, the first
\* one included
NextCallback == runs % 2 = 0
NoOverride == [given |-> FALSE, value |-> 0]
Override(n) == [given |-> TRUE, value |-> n]
Overrides == { NoOverride } \cup { Override(n) : n \in 0..MaxCeiling }

Event(ev, a, b) == [ev |-> ev, a |-> a, b |-> b]
ModelReplyEvent(text) == Event("model", "reply", text)
ModelFailEvent(exc) == Event("model", "fail", exc)
ToolEvent(name, args) == Event("tool", name, args)
CallbackEvent(text) == Event("callback", "", text)
AppendEvent(turn) == Event("append", turn.role, turn.content)
ResetEvent == Event("reset", "", "")
AddToolEvent(tool) == Event("add_tool", tool.name, tool.description)

NoExec == [called |-> FALSE, name |-> "", args |-> "",
           outcome |-> Returned(<<>>), result |-> Returned(<<>>)]

\* Agent.__init__
InitAgent ==
    /\ tools \in InitialRegistries
    /\ system_prompt = _create_system_prompt(tools)
    /\ self_max_iterations = MaxCeiling
    /\ messages = <<>>
    /\ pc = "idle"
    /\ query = ""
    /\ callback = FALSE
    /\ reset_conversation = FALSE
    /\ max_iterations_arg = NoOverride
    /\ max_iterations = 0
    /\ iteration = 0
    /\ full_response = <<>>
    /\ result = ""
    /\ raised = NoError
    /\ pre_messages = <<>>
    /\ events = <<>>
    /\ exec_log = NoExec
    /\ runs = 0
    /\ total_calls = 0
    /\ add_tools = 0
    /\ resets = 0

\* the input of a tool called on its own
ToolInput(tool, expr, api_key, http, now) ==
    [tool |-> tool, expr |-> expr, api_key |-> api_key, http |-> http, now |-> now]
NoToolInput == ToolInput("", Parsed(Num(0)), "", Returns(JNull), "")

\* no tool is under test
ToolsAtRest ==
    /\ tool_input = NoToolInput
    /\ tool_outcome = Returns(JNull)
    /\ tool_pc = "ready"

\* the threads that call run_loop on the one Agent
Threads == { 1, 2 }

\* a thread that has not called run_loop
ThreadIdle ==
    [pc |-> "idle", query |-> "", reset_conversation |-> FALSE,
     max_iterations |-> 0, iteration |-> 0, full_response |-> <<>>,
     request |-> <<>>, response |-> "", result |-> "", raised |-> NoError]

\* no thread has called run_loop
ThreadsAtRest ==
    /\ thread = [t \in Threads |-> ThreadIdle]
    /\ authors = <<>>
    /\ appended = [t \in Threads |-> <<>>]

\* _parse_action is not under test
ParserAtRest ==
    /\ parse_input = ""
    /\ parse_result = NoAction
    /\ parse_pc = "ready"

\* make_request is not under test
RequestAtRest ==
    /\ request_retries = 0
    /\ request_attempts = 0
    /\ request_log = <<>>
    /\ request_pc = "loop"
    /\ request_result = Returns(JNull)

\* the chat application is not running
ChatAtRest ==
    /\ chat = <<>>
    /\ ready = <<>>

\* the agent is constructed; no tool, parser or request is called on its own,
\* no thread has called run_loop and the chat application is not running
Init ==
    /\ InitAgent
    /\ ToolsAtRest /\ ThreadsAtRest /\ ParserAtRest /\ RequestAtRest /\ ChatAtRest

\* no run_loop invocation is in progress
Idle == pc # "awaiting_model"

\* add_tool that renders the prompt only for a new name
add_tool_prompt_for_new_name(tool) ==
    /\ Idle
    /\ add_tools + resets < MaxIdleOps
    /\ runs < MaxRuns
    /\ tools' = DictSet(tools, tool)
    /\ system_prompt' = IF HasKey(tools, tool.name)
                        THEN system_prompt
                        ELSE _create_system_prompt(tools')
    /\ add_tools' = add_tools + 1
    /\ events' = Append(events, AddToolEvent(tool))
    /\ UNCHANGED <<chat_vars, request_vars, parse_vars, self_max_iterations, messages, run_vars, pre_messages,
                   exec_log, runs, total_calls, resets,
                   tool_vars, thread_vars>>

\* Agent.add_tool
add_tool(tool) ==
    /\ Idle
    /\ add_tools + resets < MaxIdleOps
    /\ runs < MaxRuns
    /\ tools' = DictSet(tools, tool)
    /\ system_prompt' = _create_system_prompt(tools')
    /\ add_tools' = add_tools + 1
    /\ events' = Append(events, AddToolEvent(tool))
    /\ UNCHANGED <<chat_vars, request_vars, parse_vars, self_max_iterations, messages, run_vars, pre_messages,
                   exec_log, runs, total_calls, resets,
                   tool_vars, thread_vars>>

\* Agent.reset
reset ==
    /\ Idle
    /\ add_tools + resets < MaxIdleOps
    /\ runs < MaxRuns
    /\ messages' = ResetConversation(system_prompt)
    /\ resets' = resets + 1
    /\ events' = Append(events, ResetEvent)
    /\ UNCHANGED <<chat_vars, request_vars, parse_vars, tools, system_prompt, self_max_iterations, run_vars,
                   pre_messages, exec_log, runs, total_calls, add_tools,
                   tool_vars, thread_vars>>

\* run_loop from its call to the first model call (or to its return when
\* the ceiling lets no iteration run)
run_loop(q, cb, override, rc) ==
    LET ceiling == EffectiveCeiling(override, self_max_iterations)
        msgs == StartConversation(messages, system_prompt, q, rc)
    IN  /\ Idle
        /\ runs < MaxRuns
        /\ total_calls + ceiling <= MaxTotalCalls
        /\ runs' = runs + 1
        /\ query' = q
        /\ callback' = cb
        /\ reset_conversation' = rc
        /\ max_iterations_arg' = override
        /\ max_iterations' = ceiling
        /\ pre_messages' = messages
        /\ messages' = msgs
        /\ iteration' = 0
        /\ full_response' = <<>>
        /\ raised' = NoError
        /\ exec_log' = NoExec
        /\ events' = << AppendEvent(msgs[Len(msgs)]) >>
        /\ IF LoopContinues(0, ceiling)
           THEN pc' = "awaiting_model" /\ result' = ""
           ELSE pc' = "returned" /\ result' = Transcript(<<>>, TRUE)
        /\ UNCHANGED <<chat_vars, request_vars, parse_vars, tools, system_prompt, self_max_iterations,
                       total_calls, add_tools, resets, tool_vars, thread_vars>>

\* IterationRaises that puts the conversation back to the one run_loop was
\* called with
IterationRaises_rolls_back(provider) ==
    LET llm == _call_llm(provider)
    IN  /\ pc = "awaiting_model"
        /\ llm.kind = "raise"
        /\ total_calls' = total_calls + 1
        /\ iteration' = iteration + 1
        /\ events' = Append(events, ModelFailEvent(provider.exc))
        /\ pc' = "raised"
        /\ raised' = llm.error
        /\ messages' = pre_messages
        /\ UNCHANGED <<chat_vars, request_vars, parse_vars, tools, system_prompt, self_max_iterations,
                       query, callback, reset_conversation,
                       max_iterations_arg, max_iterations, full_response,
                       result, pre_messages, exec_log, runs, add_tools,
                       resets, tool_vars, thread_vars>>

\* one iteration of the loop whose model call fails: _call_llm raises and
\* run_loop has no handler, so the error leaves run_loop
IterationRaises(provider) ==
    LET llm == _call_llm(provider)
    IN  /\ pc = "awaiting_model"
        /\ llm.kind = "raise"
        /\ total_calls' = total_calls + 1
        /\ iteration' = iteration + 1
        /\ events' = Append(events, ModelFailEvent(provider.exc))
        /\ pc' = "raised"
        /\ raised' = llm.error
        /\ UNCHANGED <<chat_vars, request_vars, parse_vars, agent_vars, query, callback, reset_conversation,
                       max_iterations_arg, max_iterations, full_response,
                       result, pre_messages, exec_log, runs, add_tools,
                       resets, tool_vars, thread_vars>>

\* run_loop without its callback calls
CallbackEvents_never(cb, text) == <<>>

\* the callback call of run_loop after an appended turn, when a callback is
\* supplied
CallbackEvents(cb, text) == IF cb THEN << CallbackEvent(text) >> ELSE <<>>

\* IterationReplies that returns at the ceiling as soon as the reply is in
IterationReplies_stops_at_ceiling(provider, outcome) ==
    LET llm == _call_llm(provider)
        response == llm.text
        assistant == Turn("assistant", response)
        replies == Append(full_response, response)
        heard == Append(events,
                        IF provider.kind = "reply"
                        THEN ModelReplyEvent(provider.text)
                        ELSE ModelFailEvent(provider.exc))
                 \o << AppendEvent(assistant) >>
                 \o CallbackEvents(callback, response)
        scan == Scanned[response]
        action == scan.action
        dispatch == Dispatches(tools, scan)
        obs == Observe(tools, scan, outcome)
        called == IF dispatch
                  THEN heard \o << ToolEvent(action.tool, action.args) >>
                  ELSE heard
    IN  /\ pc = "awaiting_model"
        /\ llm.kind = "return"
        /\ total_calls' = total_calls + 1
        /\ iteration' = iteration + 1
        /\ full_response' = replies
        /\ IF scan.answer \/ ~LoopContinues(iteration', max_iterations)
           THEN /\ messages' = Append(messages, assistant)
                /\ events' = heard
                /\ exec_log' = exec_log
                /\ pc' = "returned"
                /\ result' = Transcript(replies, ~scan.answer)
                /\ raised' = raised
           ELSE /\ exec_log' =
                      IF dispatch
                      THEN [called |-> TRUE,
                            name |-> Lookup(tools, action.tool).name,
                            args |-> action.args,
                            outcome |-> outcome,
                            result |-> safe_execute(
                                           Lookup(tools, action.tool).name,
                                           action.args, outcome)]
                      ELSE exec_log
                /\ IF obs.escaped
                   THEN /\ messages' = Append(messages, assistant)
                        /\ events' = called
                        /\ pc' = "raised"
                        /\ raised' = obs.error
                        /\ result' = result
                   ELSE /\ messages' = Append(Append(messages, assistant),
                                              Turn("user", obs.text))
                        /\ events' = called
                                     \o << AppendEvent(Turn("user", obs.text)) >>
                                     \o CallbackEvents(callback, obs.text)
                        /\ raised' = raised
                        /\ IF LoopContinues(iteration', max_iterations)
                           THEN pc' = "awaiting_model" /\ result' = result
                           ELSE /\ pc' = "returned"
                                /\ result' = Transcript(replies, TRUE)
        /\ UNCHANGED <<chat_vars, request_vars, parse_vars, tools, system_prompt, self_max_iterations, query,
                       callback, reset_conversation, max_iterations_arg,
                       max_iterations, pre_messages, runs, add_tools, resets,
                       tool_vars, thread_vars>>

\* one iteration of the loop whose model call returns a reply; outcome is
\* what the tool's execute does if the iteration calls a tool
IterationReplies(provider, outcome) ==
    LET llm == _call_llm(provider)
        response == llm.text
        assistant == Turn("assistant", response)
        replies == Append(full_response, response)
        heard == Append(events,
                        IF provider.kind = "reply"
                        THEN ModelReplyEvent(provider.text)
                        ELSE ModelFailEvent(provider.exc))
                 \o << AppendEvent(assistant) >>
                 \o CallbackEvents(callback, response)
        scan == Scanned[response]
        action == scan.action
        dispatch == Dispatches(tools, scan)
        obs == Observe(tools, scan, outcome)
        called == IF dispatch
                  THEN heard \o << ToolEvent(action.tool, action.args) >>
                  ELSE heard
    IN  /\ pc = "awaiting_model"
        /\ llm.kind = "return"
        /\ total_calls' = total_calls + 1
        /\ iteration' = iteration + 1
        /\ full_response' = replies
        /\ IF scan.answer
           THEN /\ messages' = Append(messages, assistant)
                /\ events' = heard
                /\ exec_log' = exec_log
                /\ pc' = "returned"
                /\ result' = Transcript(replies, FALSE)
                /\ raised' = raised
           ELSE /\ exec_log' =
                      IF dispatch
                      THEN [called |-> TRUE,
                            name |-> Lookup(tools, action.tool).name,
                            args |-> action.args,
                            outcome |-> outcome,
                            result |-> safe_execute(
                                           Lookup(tools, action.tool).name,
                                           action.args, outcome)]
                      ELSE exec_log
                /\ IF obs.escaped
                   THEN /\ messages' = Append(messages, assistant)
                        /\ events' = called
                        /\ pc' = "raised"
                        /\ raised' = obs.error
                        /\ result' = result
                   ELSE /\ messages' = Append(Append(messages, assistant),
                                              Turn("user", obs.text))
                        /\ events' = called
                                     \o << AppendEvent(Turn("user", obs.text)) >>
                                     \o CallbackEvents(callback, obs.text)
                        /\ raised' = raised
                        /\ IF LoopContinues(iteration', max_iterations)
                           THEN pc' = "awaiting_model" /\ result' = result
                           ELSE /\ pc' = "returned"
                                /\ result' = Transcript(replies, TRUE)
        /\ UNCHANGED <<chat_vars, request_vars, parse_vars, tools, system_prompt, self_max_iterations, query,
                       callback, reset_conversation, max_iterations_arg,
                       max_iterations, pre_messages, runs, add_tools, resets,
                       tool_vars, thread_vars>>

Next ==
    \/ \E tool \in ToolPool : add_tool(tool)
    \/ reset
    \/ \E override \in Overrides, rc \in BOOLEAN :
           run_loop(NextQuery, NextCallback, override, rc)
    \/ \E provider \in ProviderOutcomes : IterationRaises(provider)
    \/ \E provider \in ProviderOutcomes, outcome \in ExecOutcomes :
           IterationReplies(provider, outcome)

Spec == Init /\ [][Next]_vars

\* the step of a run_loop invocation that is waiting for the model: the call
\* returns or raises, and so does the tool call that may follow it
LoopStep ==
    \/ \E provider \in ProviderOutcomes : IterationRaises(provider)
    \/ \E provider \in ProviderOutcomes, outcome \in ExecOutcomes :
           IterationReplies(provider, outcome)

\* a caller that only calls run_loop, as the loop of main.py does
NextRuns ==
    \/ \E override \in Overrides, rc \in BOOLEAN :
           run_loop(NextQuery, NextCallback, override, rc)
    \/ LoopStep

\* the run_loop invocations when every model call and every tool call comes
\* back
SpecFair == Init /\ [][NextRuns]_vars /\ WF_vars(LoopStep)

(***************************************************************************)
(* The concrete tools, each called once on an input.                       *)
(***************************************************************************)
\* the expressions calculate is given
Atoms == { Num(n) : n \in 0..MaxOperand } \cup { Name("x"), Str("abc") }
Operands == Atoms \cup { UnaryOp("USub", Num(MaxOperand)) }
Expressions ==
    { Parsed(node) :
          node \in Atoms
                   \cup { Call("sqrt") }
                   \cup { UnaryOp(op, a) : op \in { "USub", "UAdd" }, a \in Atoms }
                   \cup { BinOp(l, op, r) :
                              l \in Operands,
                              op \in BinaryOperators \cup { "BitAnd" },
                              r \in Operands } }
    \cup { SyntaxError("invalid syntax (<unknown>, line 1)") }

\* an object without its i-th pair, and with another value in its i-th pair
DropPair(obj, i) ==
    JObj(SubSeq(obj.v, 1, i - 1) \o SubSeq(obj.v, i + 1, Len(obj.v)))
SetPair(obj, i, value) ==
    JObj([j \in 1..Len(obj.v) |-> IF j = i THEN <<obj.v[j][1], value>> ELSE obj.v[j]])

Conditions ==
    JObj(<< <<"temp", JNum(18)>>, <<"feels_like", JNum(17)>>, <<"humidity", JNum(75)>> >>)
Sky ==
    JList(<< JObj(<< <<"main", JStr("Clouds")>>,
                     <<"description", JStr("scattered clouds")>> >>) >>)

\* the responses of the current weather endpoint
CompleteWeather ==
    JObj(<< <<"name", JStr("London")>>,
            <<"sys", JObj(<< <<"country", JStr("GB")>> >>)>>,
            <<"main", Conditions>>,
            <<"wind", JObj(<< <<"speed", JNum(5)>> >>)>>,
            <<"weather", Sky>> >>)

\* the shapes a part of a response has when it is not the expected one
Misshapen == { JNull, JList(<<>>), JObj(<<>>) }

\* the bodies make_request returns that are no weather report: the text of
\* a body that is no JSON, null and an empty list
OtherBodies == { JObj(<< <<"text", JStr("<html>")>> >>), JNull, JList(<<>>) }

WeatherResponses ==
    { CompleteWeather }
    \cup { DropPair(CompleteWeather, i) : i \in 1..Len(CompleteWeather.v) }
    \cup { SetPair(CompleteWeather, i, shape) :
               i \in 1..Len(CompleteWeather.v), shape \in Misshapen }
    \cup OtherBodies

\* one item of the forecast list, at dt seconds
ForecastItem(dt) ==
    JObj(<< <<"dt", JNum(dt)>>, <<"main", Conditions>>, <<"weather", Sky>> >>)

\* a forecast of n items, two for each day
ForecastOf(n) ==
    JObj(<< <<"list", JList([i \in 1..n |-> ForecastItem((i - 1) * 43200)])>>,
            <<"city", JObj(<< <<"name", JStr("London")>>,
                              <<"country", JStr("GB")>> >>)>> >>)

\* the second item of a forecast replaced by another item
WithSecondItem(forecast, item) ==
    SetPair(forecast, 1,
            JList([i \in 1..Len(forecast.v[1][2].v) |->
                      IF i = 2 THEN item ELSE forecast.v[1][2].v[i]]))

\* the responses of the forecast endpoint
ForecastResponses ==
    { ForecastOf(n) : n \in { 0, 1, 3, 2 * ForecastDays + 1 } }
    \cup { DropPair(ForecastOf(3), i) : i \in 1..2 }
    \cup { SetPair(ForecastOf(3), i, shape) : i \in 1..2, shape \in Misshapen }
    \cup { SetPair(ForecastOf(3), 2, JObj(<< <<"name", JStr("London")>> >>)) }
    \cup { WithSecondItem(ForecastOf(3), item) :
               item \in { DropPair(ForecastItem(0), 1),
                          DropPair(ForecastItem(0), 2),
                          DropPair(ForecastItem(86400), 2),
                          SetPair(ForecastItem(86400), 3, JList(<<>>)),
                          SetPair(ForecastItem(86400), 1, JStr("tomorrow")) } }
    \cup OtherBodies

\* what make_request does: it returns a body or raises APIError
HttpFailures == { Raises("APIError", "Request failed after 3 attempts: timed out") }
WeatherHttp == { Returns(body) : body \in WeatherResponses } \cup HttpFailures
ForecastHttp == { Returns(body) : body \in ForecastResponses } \cup HttpFailures

\* the API key of a weather tool: none, or one
ApiKeys == { "", "key" }

ToolInputs ==
    { ToolInput("calculate", expr, "", Returns(JNull), "") : expr \in Expressions }
    \cup { ToolInput("get_weather", Parsed(Num(0)), key, http, "2025-05-05 13:45:22") :
               key \in ApiKeys, http \in WeatherHttp }
    \cup { ToolInput("get_forecast", Parsed(Num(0)), key, http, "") :
               key \in ApiKeys, http \in ForecastHttp }

\* a tool is constructed and about to be called on an input
InitTools ==
    /\ InitAgent
    /\ tools = <<>>
    /\ tool_input \in ToolInputs
    /\ tool_outcome = Returns(JNull)
    /\ tool_pc = "ready"
    /\ ThreadsAtRest
    /\ ParserAtRest
    /\ RequestAtRest
    /\ ChatAtRest

\* CalculationTool.execute on the input
ExecuteCalculate ==
    /\ tool_pc = "ready"
    /\ tool_input.tool = "calculate"
    /\ tool_outcome' = CalculationTool_execute(tool_input.expr)
    /\ tool_pc' = "done"
    /\ UNCHANGED <<chat_vars, request_vars, parse_vars, tool_input, agent_vars, run_vars, history_vars, bound_vars,
                   thread_vars>>

\* WeatherTool.execute on the input
ExecuteWeather ==
    /\ tool_pc = "ready"
    /\ tool_input.tool = "get_weather"
    /\ tool_outcome' = WeatherTool_execute(tool_input.api_key, tool_input.http,
                                           tool_input.now)
    /\ tool_pc' = "done"
    /\ UNCHANGED <<chat_vars, request_vars, parse_vars, tool_input, agent_vars, run_vars, history_vars, bound_vars,
                   thread_vars>>

\* ForecastTool.execute on the input
ExecuteForecast ==
    /\ tool_pc = "ready"
    /\ tool_input.tool = "get_forecast"
    /\ tool_outcome' = ForecastTool_execute(tool_input.api_key, tool_input.http)
    /\ tool_pc' = "done"
    /\ UNCHANGED <<chat_vars, request_vars, parse_vars, tool_input, agent_vars, run_vars, history_vars, bound_vars,
                   thread_vars>>

NextTools == ExecuteCalculate \/ ExecuteWeather \/ ExecuteForecast

SpecTools == InitTools /\ [][NextTools]_vars

(***************************************************************************)
(* Two run_loop invocations on one Agent, each on a thread of its own.     *)
(* A thread runs one statement that touches the conversation at a time and *)
(* may be preempted between any two of them and during its model call and  *)
(* its tool call.                                                          *)
(***************************************************************************)
\* run_loop when it would wait for another invocation in progress
Enter_locked(t, q, override, rc) ==
    LET ceiling == EffectiveCeiling(override, self_max_iterations)
    IN  /\ thread[t].pc = "idle"
        /\ \A u \in Threads \ { t } :
               /\ thread[u].max_iterations + ceiling <= MaxTotalCalls
               /\ thread[u].pc \in { "idle", "returned", "raised" }
        /\ thread' = [thread EXCEPT ![t] =
               [@ EXCEPT !.pc = IF rc \/ messages = <<>>
                                THEN "reset" ELSE "question",
                         !.query = q,
                         !.reset_conversation = rc,
                         !.max_iterations = ceiling]]
        /\ UNCHANGED <<chat_vars, request_vars, parse_vars, agent_vars, run_vars, history_vars, bound_vars,
                       tool_vars, authors, appended>>

\* run_loop is called on thread t: the ceiling and the test of the
\* conversation (react_agent.py:223-226)
Enter(t, q, override, rc) ==
    LET ceiling == EffectiveCeiling(override, self_max_iterations)
    IN  /\ thread[t].pc = "idle"
        /\ \A u \in Threads \ { t } :
               thread[u].max_iterations + ceiling <= MaxTotalCalls
        /\ thread' = [thread EXCEPT ![t] =
               [@ EXCEPT !.pc = IF rc \/ messages = <<>>
                                THEN "reset" ELSE "question",
                         !.query = q,
                         !.reset_conversation = rc,
                         !.max_iterations = ceiling]]
        /\ UNCHANGED <<chat_vars, request_vars, parse_vars, agent_vars, run_vars, history_vars, bound_vars,
                       tool_vars, authors, appended>>

\* self.reset() of thread t (react_agent.py:227)
Reset(t) ==
    /\ thread[t].pc = "reset"
    /\ messages' = ResetConversation(system_prompt)
    /\ authors' = << 0 >>
    /\ thread' = [thread EXCEPT ![t].pc = "question"]
    /\ UNCHANGED <<chat_vars, request_vars, parse_vars, tools, system_prompt, self_max_iterations, run_vars,
                   history_vars, bound_vars, tool_vars, appended>>

\* thread t appends its question (react_agent.py:230)
AppendQuestion(t) ==
    LET turn == Turn("user", QuestionPrefix \o thread[t].query)
    IN  /\ thread[t].pc = "question"
        /\ messages' = Append(messages, turn)
        /\ authors' = Append(authors, t)
        /\ appended' = [appended EXCEPT ![t] = Append(@, turn)]
        /\ thread' = [thread EXCEPT ![t].pc = "loop"]
        /\ UNCHANGED <<chat_vars, request_vars, parse_vars, tools, system_prompt, self_max_iterations, run_vars,
                       history_vars, bound_vars, tool_vars>>

\* the loop test of thread t and, when it lets an iteration run, the start
\* of the model call with the conversation as it is (react_agent.py:235-239)
EnterLoop(t) ==
    /\ thread[t].pc = "loop"
    /\ IF LoopContinues(thread[t].iteration, thread[t].max_iterations)
       THEN thread' = [thread EXCEPT ![t] =
                [@ EXCEPT !.pc = "in_call",
                          !.iteration = @ + 1,
                          !.request = messages]]
       ELSE thread' = [thread EXCEPT ![t] =
                [@ EXCEPT !.pc = "returned",
                          !.result = Transcript(thread[t].full_response, TRUE)]]
    /\ UNCHANGED <<chat_vars, request_vars, parse_vars, agent_vars, run_vars, history_vars, bound_vars, tool_vars,
                   authors, appended>>

\* the model call of thread t ends: its reply is appended, or its failure
\* leaves run_loop (react_agent.py:239-241)
Receive(t, provider) ==
    LET llm == _call_llm(provider)
        turn == Turn("assistant", llm.text)
    IN  /\ thread[t].pc = "in_call"
        /\ IF llm.kind = "raise"
           THEN /\ thread' = [thread EXCEPT ![t] =
                       [@ EXCEPT !.pc = "raised", !.raised = llm.error]]
                /\ UNCHANGED <<messages, authors, appended>>
           ELSE /\ messages' = Append(messages, turn)
                /\ authors' = Append(authors, t)
                /\ appended' = [appended EXCEPT ![t] = Append(@, turn)]
                /\ thread' = [thread EXCEPT ![t] =
                       [@ EXCEPT !.pc = "reply",
                                 !.response = llm.text,
                                 !.full_response = Append(@, llm.text)]]
        /\ UNCHANGED <<chat_vars, request_vars, parse_vars, tools, system_prompt, self_max_iterations, run_vars,
                       history_vars, bound_vars, tool_vars>>

\* thread t deals with its reply: it returns on the answer marker, and
\* otherwise appends the observation, after the tool call if there is one
\* (react_agent.py:253-304)
Process(t, outcome) ==
    LET scan == Scanned[thread[t].response]
        obs == Observe(tools, scan, outcome)
        turn == Turn("user", obs.text)
    IN  /\ thread[t].pc = "reply"
        /\ IF scan.answer
           THEN /\ thread' = [thread EXCEPT ![t] =
                       [@ EXCEPT !.pc = "returned",
                                 !.result = Transcript(thread[t].full_response, FALSE)]]
                /\ UNCHANGED <<messages, authors, appended>>
           ELSE IF obs.escaped
           THEN /\ thread' = [thread EXCEPT ![t] =
                       [@ EXCEPT !.pc = "raised", !.raised = obs.error]]
                /\ UNCHANGED <<messages, authors, appended>>
           ELSE /\ messages' = Append(messages, turn)
                /\ authors' = Append(authors, t)
                /\ appended' = [appended EXCEPT ![t] = Append(@, turn)]
                /\ thread' = [thread EXCEPT ![t].pc = "loop"]
        /\ UNCHANGED <<chat_vars, request_vars, parse_vars, tools, system_prompt, self_max_iterations, run_vars,
                       history_vars, bound_vars, tool_vars>>

\* what the model and the tools do while the threads run: an answer, an
\* action for a tool, a failing call; a mapping, an exception
ThreadProviderOutcomes ==
    { Replied("Answer: Hi there!"),
      Replied("Thought: sum\nAction: calculate: 2 + 2\nPAUSE"),
      Failed("APIConnectionError") }
ThreadExecOutcomes ==
    { Returned(<< <<"city", "str", "London">>, <<"temperature", "num", "18.5">> >>),
      Raised("ToolExecutionError") }

\* an Agent is constructed and shared by the threads
InitConcurrent == Init

NextConcurrent ==
    \/ \E t \in Threads, override \in Overrides, rc \in BOOLEAN :
           Enter(t, Queries[t], override, rc)
    \/ \E t \in Threads : Reset(t)
    \/ \E t \in Threads : AppendQuestion(t)
    \/ \E t \in Threads : EnterLoop(t)
    \/ \E t \in Threads, provider \in ThreadProviderOutcomes :
           Receive(t, provider)
    \/ \E t \in Threads, outcome \in ThreadExecOutcomes : Process(t, outcome)

SpecConcurrent == InitConcurrent /\ [][NextConcurrent]_vars



(***************************************************************************)
(* The action parser, called once on a reply.                              *)
(***************************************************************************)
\* what comes before the line under test
ReplyHeads ==
    { "", "Thought: t\n", "action: a_b: 1\n", "Action: : x\n",
      "Action: t2: x\n", "Action: x:\n", "Action: y: \n", "ReAction: up: 3\n" }

\* the line under test
ReplyLines ==
    { "Action: calculate: 2 + 2", "ACTION: Get_Weather: London",
      "Action: calculate", "Answer: 4", "" }

\* what comes after it
ReplyTails ==
    { "", "\n", "\nPAUSE", "\nAction: get_forecast: Paris\nPAUSE" }

\* the replies _parse_action is given
ParseInputs ==
    { h \o l \o t : h \in ReplyHeads, l \in ReplyLines, t \in ReplyTails }

InitParse ==
    /\ InitAgent
    /\ tools = <<>>
    /\ ToolsAtRest
    /\ ThreadsAtRest
    /\ parse_input \in ParseInputs
    /\ parse_result = NoAction
    /\ parse_pc = "ready"
    /\ RequestAtRest
    /\ ChatAtRest

\* Agent._parse_action on the reply
ParseAction ==
    /\ parse_pc = "ready"
    /\ parse_result' = _parse_action(parse_input)
    /\ parse_pc' = "done"
    /\ UNCHANGED <<chat_vars, request_vars, parse_input, agent_vars, run_vars, history_vars, bound_vars,
                   tool_vars, thread_vars>>

NextParse == ParseAction

SpecParse == InitParse /\ [][NextParse]_vars

(***************************************************************************)
(* make_request (src/utils/api.py), one HTTP attempt at a time.            *)
(***************************************************************************)
\* what one HTTP attempt does: the response has a JSON body, or a body that
\* is no JSON, or the attempt raises a RequestException (raise_for_status
\* included)
JsonBody(value) == [kind |-> "json", value |-> value, text |-> ""]
TextBody(text) == [kind |-> "text", value |-> JNull, text |-> text]
RequestException(message) == [kind |-> "fail", value |-> JNull, text |-> message]

AttemptOutcomes ==
    { JsonBody(JObj(<< <<"name", JStr("London")>> >>)),
      JsonBody(JObj(<<>>)),
      TextBody("plain"),
      RequestException("connection refused"),
      RequestException("timed out"),
      RequestException("500 Server Error") }

Succeeds(outcome) == outcome.kind # "fail"

\* the mapping make_request returns for a response
ResponseMapping(outcome) ==
    IF outcome.kind = "json" THEN outcome.value
    ELSE JObj(<< <<"text", JStr(outcome.text)>> >>)

\* make_request is called with retries
InitRequest ==
    /\ InitAgent
    /\ tools = <<>>
    /\ ToolsAtRest
    /\ ThreadsAtRest
    /\ ParserAtRest
    /\ request_retries \in 0..MaxRetries
    /\ request_attempts = 0
    /\ request_log = <<>>
    /\ request_pc = "loop"
    /\ request_result = Returns(JNull)
    /\ ChatAtRest

\* one pass of the loop: an attempt, and then the return of the response,
\* the APIError after the last attempt, or the next pass
Attempt(outcome) ==
    /\ request_pc = "loop"
    /\ request_attempts < request_retries
    /\ request_attempts' = request_attempts + 1
    /\ request_log' = Append(request_log, outcome)
    /\ IF Succeeds(outcome)
       THEN /\ request_result' = Returns(ResponseMapping(outcome))
            /\ request_pc' = "done"
       ELSE IF request_attempts' >= request_retries
       THEN /\ request_result' =
                   Raises("APIError",
                          "Request failed after " \o ToString(request_retries)
                          \o " attempts: " \o outcome.text)
            /\ request_pc' = "done"
       ELSE /\ request_result' = request_result
            /\ request_pc' = "loop"
    /\ UNCHANGED <<chat_vars, request_retries, parse_vars, agent_vars, run_vars,
                   history_vars, bound_vars, tool_vars, thread_vars>>

\* the loop condition is false: the function ends without a return
\* statement and the call returns None
LoopEnds ==
    /\ request_pc = "loop"
    /\ ~(request_attempts < request_retries)
    /\ request_result' = Returns(JNull)
    /\ request_pc' = "done"
    /\ UNCHANGED <<chat_vars, request_retries, request_attempts, request_log, parse_vars,
                   agent_vars, run_vars, history_vars, bound_vars, tool_vars,
                   thread_vars>>

NextRequest ==
    \/ \E outcome \in AttemptOutcomes : Attempt(outcome)
    \/ LoopEnds

SpecRequest == InitRequest /\ [][NextRequest]_vars

(***************************************************************************)
(* The chat application (src/chainlit_app.py).  One Agent is built when    *)
(* the module is loaded and every message of every chat session is handled *)
(* by the coroutine on_message on the one event loop.  The event loop runs *)
(* one task at a time, from the front of its queue of tasks that can run,  *)
(* up to the next await of that task; run_loop is an ordinary call, so the *)
(* event loop runs nothing else until it has come back.                    *)
(***************************************************************************)
\* str.strip()
Whitespace == { " ", "\n", "\t" }
Strip(s) ==
    LET kept == { i \in 1..Len(s) : Char(s, i) \notin Whitespace }
    IN  IF kept = {} THEN ""
        ELSE SubSeq(s, CHOOSE i \in kept : \A k \in kept : i <= k,
                       CHOOSE j \in kept : \A k \in kept : j >= k)

\* s.split(sep, 1)[1], for a text s that holds sep
AfterFirst(s, sep) ==
    LET at == { i \in 1..(Len(s) - Len(sep) + 1) :
                    SubSeq(s, i, i + Len(sep) - 1) = sep }
        i == CHOOSE m \in at : \A o \in at : m <= o
    IN  SubSeq(s, i + Len(sep), Len(s))

\* create_tools()
ChatTools ==
    << Tool("get_weather", "e.g. get_weather: London"),
       Tool("get_forecast", "e.g. get_forecast: London"),
       Tool("calculate", "e.g. calculate: 2 + 2") >>

\* the chat sessions; the messages come from them in turn
Sessions == { 1, 2 }
SessionOf(h) == ((h - 1) % 2) + 1

\* final_answer = None
None == [given |-> FALSE, text |-> ""]
Some(text) == [given |-> TRUE, text |-> text]

\* `if final_answer`
Truthy(answer) == answer.given /\ answer.text # ""

\* a task the event loop can run: an on_message handler, its
\* process_callbacks worker, or a callback_queue.put(content) task
Handle(task, h, content) == [task |-> task, h |-> h, content |-> content]
HandlerTask(h) == Handle("handler", h, "")
WorkerTask(h) == Handle("worker", h, "")
PutTask(h, content) == Handle("put", h, content)

InReady(handle) == \E i \in 1..Len(ready) : ready[i] = handle

\* what the handler sends to the user interface
Message(content) == [kind |-> "message", content |-> content, entries |-> <<>>]
Details(entries) == [kind |-> "details", content |-> "", entries |-> entries]
Removed(content) == [kind |-> "removed", content |-> content, entries |-> <<>>]

ThinkingText == "Thinking..."
FallbackText == "I wasn't able to get a clear answer. Please try asking in a different way."

\* an entry of process_content: its kind, the iteration number a Thought is
\* labelled with, and the content it was formatted from
Entry(kind, n, content) == [kind |-> kind, iteration |-> n, of |-> content]

\* on_message is called for message h: its local variables, where it is
\* suspended, its queue and its worker
NewHandler(h) ==
    [session |-> SessionOf(h),
     pc |-> "start",
     run |-> 0,                 \* which run_loop call of the Agent is its own
     passed |-> <<>>,           \* the strings given to sync_callback
     turns |-> <<>>,            \* the turns its run_loop call appended
     queue |-> <<>>,            \* callback_queue
     unfinished |-> 0,          \* its count of unfinished tasks
     worker |-> "unborn",       \* "unborn", "scheduled", "waiting", "done"
     cancel |-> FALSE,          \* processor_task.cancel() was called
     iteration |-> 1,
     process_content |-> <<>>,
     final_answer |-> None,
     processed |-> <<>>,        \* the contents the worker has processed
     in_except |-> FALSE,       \* run_loop raised: the handler is in `except`
     error |-> "",
     sent |-> <<>>]

\* the body of the worker's loop on one content (chainlit_app.py:71-102)
ProcessContent(w, content) ==
    LET thought == IF Contains(content, "Thought:")
                   THEN << Entry("Thought", w.iteration, content) >> ELSE <<>>
        action == IF Contains(content, "Action:") /\ Contains(content, "PAUSE")
                  THEN << Entry("Action", 0, content) >> ELSE <<>>
        observed == Contains(content, "Observation:")
        observation == IF observed
                       THEN << Entry("Observation", 0, content) >> ELSE <<>>
    IN  [w EXCEPT
            !.process_content = @ \o thought \o action \o observation,
            !.iteration = IF observed THEN @ + 1 ELSE @,
            !.final_answer = IF Contains(content, "Answer:")
                             THEN Some(Strip(AfterFirst(content, "Answer:")))
                             ELSE @,
            !.processed = Append(@, content),
            !.unfinished = @ - 1]

\* the worker takes and processes the contents of the queue one after the
\* other: get() on a queue that is not empty does not suspend
RECURSIVE ProcessAll(_, _)
ProcessAll(w, contents) ==
    IF contents = <<>> THEN w
    ELSE ProcessAll(ProcessContent(w, Head(contents)), Tail(contents))

\* the replies of the model and the outcomes of the tools in the chat
ChatProviderOutcomes ==
    { Replied("Answer: Hi there!"),
      Replied("Thought: sum\nAction: calculate: 2 + 2\nPAUSE"),
      Replied("Action: calculate: 2 + 2"),
      Failed("APIConnectionError") }
ChatExecOutcomes ==
    { Returned(<< <<"city", "str", "London">>, <<"temperature", "num", "18.5">> >>),
      Raised("ToolExecutionError") }

\* the module is loaded: the one Agent is built with the three tools; the
\* ceiling the application configures stands within the bounds of the model
InitChat ==
    /\ tools = ChatTools
    /\ system_prompt = _create_system_prompt(tools)
    /\ self_max_iterations \in 1..MaxCeiling
    /\ messages = <<>>
    /\ pc = "idle"
    /\ query = ""
    /\ callback = FALSE
    /\ reset_conversation = FALSE
    /\ max_iterations_arg = NoOverride
    /\ max_iterations = 0
    /\ iteration = 0
    /\ full_response = <<>>
    /\ result = ""
    /\ raised = NoError
    /\ pre_messages = <<>>
    /\ events = <<>>
    /\ exec_log = NoExec
    /\ runs = 0
    /\ total_calls = 0
    /\ add_tools = 0
    /\ resets = 0
    /\ ToolsAtRest /\ ThreadsAtRest /\ ParserAtRest /\ RequestAtRest
    /\ chat = <<>>
    /\ ready = <<>>

\* a handler is inside its call of run_loop: the event loop is held
Blocked == \E h \in 1..Len(chat) : chat[h].pc = "call_run_loop"

\* the event loop takes the task at the front of its queue
Runs(handle) == ~Blocked /\ ready # <<>> /\ Head(ready) = handle

\* the awaits of the handler that end when the user interface has answered
\* or the timer of asyncio.sleep(0.5) is due
ExternalWaits ==
    { "send_thinking", "sleep", "remove", "remove_after_error", "send_answer",
      "send_last", "send_error" }

\* a message arrives from a chat session: chainlit makes a task of
\* on_message.  A session sends its next message when its last one has
\* been handled; the messages of different sessions overlap.
OnMessage ==
    LET h == Len(chat) + 1
    IN  /\ ~Blocked
        /\ h <= MaxRuns
        /\ h * self_max_iterations <= MaxTotalCalls
        /\ \A g \in 1..Len(chat) :
               chat[g].session = SessionOf(h) => chat[g].pc = "end"
        /\ chat' = Append(chat, NewHandler(h))
        /\ ready' = Append(ready, HandlerTask(h))
        /\ UNCHANGED <<request_vars, parse_vars, agent_vars, run_vars,
                       history_vars, bound_vars, tool_vars, thread_vars>>

\* the handler starts: it sends the thinking message (chainlit_app.py:50-60)
Start(h) ==
    /\ Runs(HandlerTask(h))
    /\ chat[h].pc = "start"
    /\ chat' = [chat EXCEPT ![h].pc = "send_thinking",
                            ![h].sent = Append(@, Message(ThinkingText))]
    /\ ready' = Tail(ready)
    /\ UNCHANGED <<request_vars, parse_vars, agent_vars, run_vars,
                   history_vars, bound_vars, tool_vars, thread_vars>>

\* the user interface has answered, or the timer is due: the handler can
\* run again
Wake(h) ==
    /\ ~Blocked
    /\ chat[h].pc \in ExternalWaits
    /\ ~InReady(HandlerTask(h))
    /\ ready' = Append(ready, HandlerTask(h))
    /\ UNCHANGED <<chat, request_vars, parse_vars, agent_vars, run_vars,
                   history_vars, bound_vars, tool_vars, thread_vars>>

\* the handler makes the worker task and is about to call run_loop
\* (chainlit_app.py:108-119)
CreateWorker(h) ==
    /\ Runs(HandlerTask(h))
    /\ chat[h].pc = "send_thinking"
    /\ chat' = [chat EXCEPT ![h].pc = "call_run_loop",
                            ![h].run = runs + 1,
                            ![h].worker = "scheduled"]
    /\ ready' = Append(Tail(ready), WorkerTask(h))
    /\ UNCHANGED <<request_vars, parse_vars, agent_vars, run_vars,
                   history_vars, bound_vars, tool_vars, thread_vars>>

\* the call with reset_conversation=True
CallRunLoop_with_reset(h) ==
    /\ chat[h].pc = "call_run_loop"
    /\ chat[h].run = runs + 1
    /\ run_loop(NextQuery, TRUE, NoOverride, TRUE)

\* agent.run_loop(query=user_query, callback=sync_callback,
\* reset_conversation=False) (chainlit_app.py:119-123)
CallRunLoop(h) ==
    /\ chat[h].pc = "call_run_loop"
    /\ chat[h].run = runs + 1
    /\ run_loop(NextQuery, TRUE, NoOverride, FALSE)

\* an iteration of the run_loop call of a handler
ChatLoopStep ==
    /\ \E h \in 1..Len(chat) : chat[h].pc = "call_run_loop" /\ chat[h].run = runs
    /\ \/ \E provider \in ChatProviderOutcomes : IterationRaises(provider)
       \/ \E provider \in ChatProviderOutcomes, outcome \in ChatExecOutcomes :
              IterationReplies(provider, outcome)

\* the strings run_loop gave to the callback, in the order of the calls
CallbackTexts ==
    LET calls == SelectSeq(events, LAMBDA e : e.ev = "callback")
    IN  [i \in 1..Len(calls) |-> calls[i].b]

\* the turns run_loop appended
RunTurns ==
    LET appends == SelectSeq(events, LAMBDA e : e.ev = "append")
    IN  [i \in 1..Len(appends) |-> Turn(appends[i].a, appends[i].b)]

\* run_loop has come back: every call of sync_callback has made a task of
\* callback_queue.put(content) (chainlit_app.py:111-115); the handler goes
\* to sleep (126), or to the handler of the exception (157-162)
RunLoopEnds(h) ==
    /\ chat[h].pc = "call_run_loop"
    /\ chat[h].run = runs
    /\ pc \in { "returned", "raised" }
    /\ chat' = [chat EXCEPT
                   ![h].passed = CallbackTexts,
                   ![h].turns = RunTurns,
                   ![h].pc = IF pc = "returned" THEN "sleep"
                             ELSE "remove_after_error",
                   ![h].in_except = (pc = "raised"),
                   ![h].error = IF pc = "returned" THEN ""
                                ELSE raised.message,
                   ![h].sent = IF pc = "returned" THEN @
                               ELSE Append(@, Removed(ThinkingText))]
    /\ ready' = ready \o [i \in 1..Len(CallbackTexts) |->
                              PutTask(h, CallbackTexts[i])]
    /\ UNCHANGED <<request_vars, parse_vars, agent_vars, run_vars,
                   history_vars, bound_vars, tool_vars, thread_vars>>

\* a task of callback_queue.put(content) runs: the content is in the queue
\* and a worker waiting in get() can run again
Put(h, content) ==
    /\ Runs(PutTask(h, content))
    /\ chat' = [chat EXCEPT
                   ![h].queue = Append(@, content),
                   ![h].unfinished = @ + 1,
                   ![h].worker = IF @ = "waiting" THEN "scheduled" ELSE @]
    /\ ready' = IF chat[h].worker = "waiting"
                THEN Append(Tail(ready), WorkerTask(h))
                ELSE Tail(ready)
    /\ UNCHANGED <<request_vars, parse_vars, agent_vars, run_vars,
                   history_vars, bound_vars, tool_vars, thread_vars>>

\* the worker runs (chainlit_app.py:63-105): a cancelled worker ends with
\* CancelledError, which `except Exception` does not catch; otherwise it
\* processes what is in the queue and waits in get().  The handler waiting
\* in join() can run again when no task is unfinished, the handler awaiting
\* the worker when the worker has ended.
WorkerStep(h) ==
    LET w == chat[h]
        after == [ProcessAll(w, w.queue) EXCEPT !.queue = <<>>,
                                               !.worker = "waiting"]
    IN  /\ Runs(WorkerTask(h))
        /\ w.worker = "scheduled"
        /\ IF w.cancel
           THEN /\ chat' = [chat EXCEPT ![h].worker = "done"]
                /\ ready' = IF w.pc = "await_worker"
                            THEN Append(Tail(ready), HandlerTask(h))
                            ELSE Tail(ready)
           ELSE /\ chat' = [chat EXCEPT ![h] = after]
                /\ ready' = IF w.pc = "join" /\ w.queue # <<>>
                               /\ after.unfinished = 0
                            THEN Append(Tail(ready), HandlerTask(h))
                            ELSE Tail(ready)
        /\ UNCHANGED <<request_vars, parse_vars, agent_vars, run_vars,
                       history_vars, bound_vars, tool_vars, thread_vars>>

\* processor_task.cancel() and `await processor_task`
\* (chainlit_app.py:130-132)
CancelWorker(w) ==
    [w EXCEPT !.cancel = TRUE,
              !.worker = IF @ = "waiting" THEN "scheduled" ELSE @,
              !.pc = "await_worker"]

\* AfterSleep without callback_queue.join()
AfterSleep_no_join(h) ==
    /\ Runs(HandlerTask(h))
    /\ chat[h].pc \in { "sleep", "join" }
    /\ chat' = [chat EXCEPT ![h] = CancelWorker(@)]
    /\ ready' = IF chat[h].worker = "waiting"
                THEN Append(Tail(ready), WorkerTask(h))
                ELSE Tail(ready)
    /\ UNCHANGED <<request_vars, parse_vars, agent_vars, run_vars,
                   history_vars, bound_vars, tool_vars, thread_vars>>

\* the handler runs again after asyncio.sleep(0.5), or after join(): it
\* waits in callback_queue.join() while a task is unfinished, and then
\* cancels the worker and awaits it (chainlit_app.py:126-132)
AfterSleep(h) ==
    /\ Runs(HandlerTask(h))
    /\ chat[h].pc \in { "sleep", "join" }
    /\ IF chat[h].unfinished > 0
       THEN /\ chat' = [chat EXCEPT ![h].pc = "join"]
            /\ ready' = Tail(ready)
       ELSE /\ chat' = [chat EXCEPT ![h] = CancelWorker(@)]
            /\ ready' = IF chat[h].worker = "waiting"
                        THEN Append(Tail(ready), WorkerTask(h))
                        ELSE Tail(ready)
    /\ UNCHANGED <<request_vars, parse_vars, agent_vars, run_vars,
                   history_vars, bound_vars, tool_vars, thread_vars>>

\* the worker has ended: the handler catches CancelledError and removes the
\* thinking message (chainlit_app.py:133-137)
AfterWorker(h) ==
    /\ Runs(HandlerTask(h))
    /\ chat[h].pc = "await_worker"
    /\ chat[h].worker = "done"
    /\ chat' = [chat EXCEPT ![h].pc = "remove",
                            ![h].sent = Append(@, Removed(ThinkingText))]
    /\ ready' = Tail(ready)
    /\ UNCHANGED <<request_vars, parse_vars, agent_vars, run_vars,
                   history_vars, bound_vars, tool_vars, thread_vars>>

\* `if final_answer`: the final answer, or the fallback message
\* (chainlit_app.py:140-141, 154-155)
Decide(h) ==
    /\ Runs(HandlerTask(h))
    /\ chat[h].pc = "remove"
    /\ chat' = [chat EXCEPT
                   ![h].pc = IF Truthy(chat[h].final_answer)
                             THEN "send_answer" ELSE "send_last",
                   ![h].sent = Append(@,
                                  IF Truthy(chat[h].final_answer)
                                  THEN Message(chat[h].final_answer.text)
                                  ELSE Message(FallbackText))]
    /\ ready' = Tail(ready)
    /\ UNCHANGED <<request_vars, parse_vars, agent_vars, run_vars,
                   history_vars, bound_vars, tool_vars, thread_vars>>

\* after the final answer: the reasoning process, if there is any
\* (chainlit_app.py:144-153)
AfterAnswer(h) ==
    /\ Runs(HandlerTask(h))
    /\ chat[h].pc = "send_answer"
    /\ chat' = [chat EXCEPT
                   ![h].pc = IF chat[h].process_content # <<>>
                             THEN "send_last" ELSE "end",
                   ![h].sent = IF chat[h].process_content # <<>>
                               THEN Append(@, Details(chat[h].process_content))
                               ELSE @]
    /\ ready' = Tail(ready)
    /\ UNCHANGED <<request_vars, parse_vars, agent_vars, run_vars,
                   history_vars, bound_vars, tool_vars, thread_vars>>

\* the error of run_loop is sent as a message (chainlit_app.py:157-165)
ReportError(h) ==
    /\ Runs(HandlerTask(h))
    /\ chat[h].pc = "remove_after_error"
    /\ chat' = [chat EXCEPT
                   ![h].pc = "send_error",
                   ![h].sent = Append(@, Message("Error: " \o chat[h].error))]
    /\ ready' = Tail(ready)
    /\ UNCHANGED <<request_vars, parse_vars, agent_vars, run_vars,
                   history_vars, bound_vars, tool_vars, thread_vars>>

\* the last message is sent: on_message returns
Finish(h) ==
    /\ Runs(HandlerTask(h))
    /\ chat[h].pc \in { "send_last", "send_error" }
    /\ chat' = [chat EXCEPT ![h].pc = "end"]
    /\ ready' = Tail(ready)
    /\ UNCHANGED <<request_vars, parse_vars, agent_vars, run_vars,
                   history_vars, bound_vars, tool_vars, thread_vars>>

NextChat ==
    \/ OnMessage
    \/ \E h \in 1..Len(chat) : Start(h)
    \/ \E h \in 1..Len(chat) : Wake(h)
    \/ \E h \in 1..Len(chat) : CreateWorker(h)
    \/ \E h \in 1..Len(chat) : CallRunLoop(h)
    \/ ChatLoopStep
    \/ \E h \in 1..Len(chat) : RunLoopEnds(h)
    \/ \E h \in 1..Len(chat) : \E i \in 1..Len(chat[h].passed) :
           Put(h, chat[h].passed[i])
    \/ \E h \in 1..Len(chat) : WorkerStep(h)
    \/ \E h \in 1..Len(chat) : AfterSleep(h)
    \/ \E h \in 1..Len(chat) : AfterWorker(h)
    \/ \E h \in 1..Len(chat) : Decide(h)
    \/ \E h \in 1..Len(chat) : AfterAnswer(h)
    \/ \E h \in 1..Len(chat) : ReportError(h)
    \/ \E h \in 1..Len(chat) : Finish(h)

SpecChat == InitChat /\ [][NextChat]_vars

(***************************************************************************)
(* Properties.  They are stated over the history of the run: the events    *)
(* since run_loop was last called.                                         *)
(***************************************************************************)
IsModelEvent(e) == e.ev = "model"
IsModelReply(e) == e.ev = "model" /\ e.a = "reply"
IsModelFailure(e) == e.ev = "model" /\ e.a = "fail"
IsToolEvent(e) == e.ev = "tool"
IsCallbackEvent(e) == e.ev = "callback"
IsAppendEvent(e) == e.ev = "append"

\* the calls of the model boundary in this run, and the replies it gave
ModelCalls == SelectSeq(events, IsModelEvent)
RunReplies ==
    LET given == SelectSeq(events, IsModelReply)
    IN  [i \in 1..Len(given) |-> given[i].b]

\* the replies of the model that hold the answer marker
AnswerReplies == { r \in Replies : Contains(r, "Answer:") }

\* C1: a reply that contains `Answer:` ends the run in its iteration: it is
\* the last call of the model boundary in the run, the run has returned and
\* the returned string contains the reply.
C1_AnswerEndsRun ==
    \A i \in 1..Len(events) :
        (IsModelReply(events[i]) /\ events[i].b \in AnswerReplies)
        => /\ pc = "returned"
           /\ Contains(result, events[i].b)
           /\ \A j \in (i + 1)..Len(events) :
                  ~IsModelEvent(events[j]) /\ ~IsToolEvent(events[j])

\* C1 witness: the second reply of a run holds the answer marker together
\* with PAUSE and an action for a registered tool
C1_Witness ==
    /\ pc = "returned"
    /\ Len(RunReplies) = 2
    /\ RunReplies[2] \in AnswerReplies
    /\ Contains(RunReplies[2], "PAUSE")
    /\ HasKey(tools, "calculate")

\* the run saw only replies without the answer marker and no failure
NoAnswerRun ==
    \A i \in 1..Len(ModelCalls) :
        IsModelReply(ModelCalls[i]) /\ ModelCalls[i].b \notin AnswerReplies

\* C2: with a ceiling N >= 1 and replies that never contain `Answer:`, the
\* run makes exactly N model calls: it is still running before the N-th call
\* and has returned, with the budget notice, once N calls are made.
C2_BudgetExactlyN ==
    (runs > 0 /\ max_iterations >= 1 /\ NoAnswerRun)
    => /\ Len(ModelCalls) <= max_iterations
       /\ Len(ModelCalls) < max_iterations => pc = "awaiting_model"
       /\ Len(ModelCalls) = max_iterations
              => /\ pc = "returned"
                 /\ EndsWith(result, "\nExceeded maximum iterations without reaching an answer.")

\* C2 witness: a run of ceiling 2 ends after two replies without answer, one
\* of them dispatched to a tool and one not parseable
C2_Witness ==
    /\ pc = "returned"
    /\ max_iterations = 2
    /\ Len(ModelCalls) = 2
    /\ NoAnswerRun
    /\ \E i \in 1..Len(events) : IsToolEvent(events[i])
    /\ \E i \in 1..Len(events) : events[i] = AppendEvent(Turn("user", CouldNotParse))

\* C3: no two adjacent turns of the conversation have the same role.
C3_StrictAlternation ==
    \A i \in 1..(Len(messages) - 1) : messages[i].role # messages[i + 1].role

\* C4: a non-empty conversation has exactly one system turn, its first.
C4_OneSystemTurnFirst ==
    messages # <<>>
    => /\ messages[1].role = "system"
       /\ \A i \in 2..Len(messages) : messages[i].role # "system"

\* C4 witness: the conversation of a second run that follows a reset() or
\* an add_tool
C4_Witness ==
    /\ runs = 2
    /\ resets + add_tools = 1
    /\ Len(messages) >= 4

\* the turns appended since run_loop was called, in the order of appending
AppendedTurns ==
    LET appends == SelectSeq(events, IsAppendEvent)
    IN  [i \in 1..Len(appends) |-> Turn(appends[i].a, appends[i].b)]

\* reset() was not called since run_loop was called
NoResetSince == \A i \in 1..Len(events) : events[i].ev # "reset"

\* C5: during and after a run_loop call without reset on a non-empty
\* conversation, the conversation is the one before the call followed by the
\* turns of this call in the order they were produced.
C5_PriorTurnsKept ==
    (runs > 0 /\ ~reset_conversation /\ pre_messages # <<>> /\ NoResetSince)
    => /\ IsPrefix(pre_messages, messages)
       /\ messages = pre_messages \o AppendedTurns

\* C5 witness: a second call without reset has returned after a tool call,
\* on a conversation that held a question, a reply and an observation
C5_Witness ==
    /\ runs = 2
    /\ pc = "returned"
    /\ ~reset_conversation
    /\ Len(pre_messages) >= 4
    /\ Len(AppendedTurns) = 3
    /\ NoResetSince
    /\ \E i \in 1..Len(events) : IsToolEvent(events[i])

\* run_loop is about to make the first model call of the run
AtFirstModelCall == pc = "awaiting_model" /\ Len(ModelCalls) = 0

\* C6: at the first model call of a run the conversation is the system turn
\* with the current prompt and the question, when a reset was asked for or
\* there was no conversation; otherwise it is the prior conversation and the
\* question.
C6_ConversationAtFirstCall ==
    AtFirstModelCall
    => IF reset_conversation \/ pre_messages = <<>>
       THEN messages = << Turn("system", system_prompt),
                          Turn("user", "Question: " \o query) >>
       ELSE messages = Append(pre_messages, Turn("user", "Question: " \o query))

\* C6 witness: a call with reset on a conversation of an earlier run, after
\* add_tool changed the prompt
C6_Witness ==
    /\ AtFirstModelCall
    /\ reset_conversation
    /\ Len(pre_messages) >= 3
    /\ add_tools = 1
    /\ pre_messages[1].content # system_prompt

\* C7: a failing model call ends the run with LLMAPIError: the run makes no
\* model call, tool call or callback call after it.
C7_ModelFailurePropagates ==
    \A i \in 1..Len(events) :
        IsModelFailure(events[i])
        => /\ pc = "raised"
           /\ raised.type = "LLMAPIError"
           /\ \A j \in (i + 1)..Len(events) :
                  /\ ~IsModelEvent(events[j])
                  /\ ~IsToolEvent(events[j])
                  /\ ~IsCallbackEvent(events[j])

\* C7 witness: the model call of the second iteration fails, after a tool
\* call and with a callback supplied
C7_Witness ==
    /\ pc = "raised"
    /\ callback
    /\ Len(ModelCalls) = 2
    /\ IsModelFailure(ModelCalls[2])
    /\ \E i \in 1..Len(events) : IsToolEvent(events[i])

\* only appends and callback calls follow event i
IterationEndsAfter(i) ==
    \A j \in (i + 1)..Len(events) :
        IsAppendEvent(events[j]) \/ IsCallbackEvent(events[j])

\* C8: whatever execute does, the iteration of a tool call appends exactly
\* one user turn, which starts with `Observation: `, and the run goes on to
\* the next model call or returns at the ceiling.
C8_DispatchNeverAborts ==
    \A i \in 1..Len(events) :
        IsToolEvent(events[i])
        => /\ i < Len(events)
           /\ IsAppendEvent(events[i + 1])
           /\ events[i + 1].a = "user"
           /\ StartsWith(events[i + 1].b, "Observation: ")
           /\ \A j \in (i + 2)..Len(events) :
                  IsAppendEvent(events[j])
                  => \E k \in (i + 2)..(j - 1) : IsModelEvent(events[k])
           /\ IterationEndsAfter(i)
              => /\ raised = NoError
                 /\ \/ pc = "awaiting_model" /\ iteration < max_iterations
                    \/ pc = "returned" /\ iteration = max_iterations
                 /\ Len(messages) >= 2
                 /\ messages[Len(messages)] = Turn("user", events[i + 1].b)
                 /\ messages[Len(messages) - 1].role = "assistant"

\* C8 witness: execute raised, or returned a mapping json.dumps cannot
\* encode, and the run is at its next model call
C8_Witness ==
    /\ exec_log.called
    /\ \/ exec_log.outcome.kind = "raise"
       \/ ~Serializable(exec_log.outcome.value)
    /\ pc = "awaiting_model"
    /\ \E i \in 1..Len(events) : IsToolEvent(events[i]) /\ IterationEndsAfter(i)

\* C9: safe_execute never raises: it returns the mapping execute returned,
\* or a mapping with the only key `error` and a non-empty text.
C9_SafeExecuteNeverRaises ==
    exec_log.called
    => /\ exec_log.result.kind = "return"
       /\ IF exec_log.outcome.kind = "return"
          THEN exec_log.result.value = exec_log.outcome.value
          ELSE /\ Len(exec_log.result.value) = 1
               /\ exec_log.result.value[1][1] = "error"
               /\ exec_log.result.value[1][2] = "str"
               /\ exec_log.result.value[1][3] # ""

\* C9 witness: safe_execute was called and execute raised
C9_Witness == exec_log.called /\ exec_log.outcome.kind = "raise"

PauseReplies ==
    { r \in Replies : Contains(r, "PAUSE") /\ ~Contains(r, "Answer:") }
ParsedAction == [r \in Replies |-> _parse_action(r)]

\* add_tool was not called since run_loop was called
NoAddToolSince == \A i \in 1..Len(events) : events[i].ev # "add_tool"

\* the events of the iteration whose model call is event i: those up to the
\* next model call
NextModelAfter(i) ==
    IF \E j \in (i + 1)..Len(events) : IsModelEvent(events[j])
    THEN CHOOSE j \in (i + 1)..Len(events) :
             /\ IsModelEvent(events[j])
             /\ \A k \in (i + 1)..(j - 1) : ~IsModelEvent(events[k])
    ELSE Len(events) + 1
IterationEvents(i) == SubSeq(events, i + 1, NextModelAfter(i) - 1)
IterationAppends(i) == SelectSeq(IterationEvents(i), IsAppendEvent)
IterationToolCalls(i) == SelectSeq(IterationEvents(i), IsToolEvent)

\* C11: a reply with PAUSE and without `Answer:` whose action names a tool
\* that is no key of the registry executes no tool, and the user turn
\* injected after it is `Observation: Tool '<name>' not found. Available
\* tools: ` followed by the keys of the registry, in registry order, joined
\* by `, `.
C11_UnknownToolReported ==
    \A i \in 1..Len(events) :
        (/\ IsModelReply(events[i])
         /\ events[i].b \in PauseReplies
         /\ ParsedAction[events[i].b].found
         /\ \A k \in 1..Len(tools) : tools[k].name # ParsedAction[events[i].b].tool
         /\ NoAddToolSince)
        => LET expected ==
                   Turn("user",
                        "Observation: Tool '" \o ParsedAction[events[i].b].tool
                        \o "' not found. Available tools: "
                        \o JoinWith([k \in 1..Len(tools) |-> tools[k].name], ", "))
           IN  /\ IterationToolCalls(i) = <<>>
               /\ IterationAppends(i) =
                      << AppendEvent(Turn("assistant", events[i].b)),
                         AppendEvent(expected) >>
               /\ (NextModelAfter(i) > Len(events) /\ NoResetSince)
                  => messages[Len(messages)] = expected

\* C11 witness: the reply names unknown_tool while the registry holds two
\* tools, the second one added by add_tool
C11_Witness ==
    /\ Len(tools) = 2
    /\ pc = "awaiting_model"
    /\ Len(RunReplies) = 1
    /\ RunReplies[1] \in PauseReplies
    /\ ParsedAction[RunReplies[1]].tool = "unknown_tool"

\* C12: a reply with PAUSE, without `Answer:` and without a parseable Action
\* line executes no tool, and the turn appended after it is the user turn
\* with the fixed text about the action that could not be parsed.
C12_UnparseableAction ==
    \A i \in 1..Len(events) :
        (/\ IsModelReply(events[i])
         /\ events[i].b \in PauseReplies
         /\ ~ParsedAction[events[i].b].found)
        => /\ IterationToolCalls(i) = <<>>
           /\ IterationAppends(i) =
                  << AppendEvent(Turn("assistant", events[i].b)),
                     AppendEvent(Turn("user",
                         "Observation: Could not parse action. Please use the format 'Action: tool_name: arguments'")) >>

\* C12 witness: a reply with PAUSE and no Action line, in the second
\* iteration of a run
C12_Witness ==
    /\ Len(RunReplies) = 2
    /\ RunReplies[2] \in PauseReplies
    /\ ~ParsedAction[RunReplies[2]].found
    /\ pc = "returned"

IsAppendOrCallback(e) == IsAppendEvent(e) \/ IsCallbackEvent(e)

\* C13: with a callback supplied, the appended turns and the callback calls
\* of a run are: the question turn, and then for every assistant reply and
\* every injected observation, in the order of appending, the append
\* followed by one callback call with the text of that turn.
C13_CallbackPerTurn ==
    (runs > 0 /\ callback)
    => LET told == SelectSeq(events, IsAppendOrCallback)
       IN  /\ Len(told) % 2 = 1
           /\ told[1] = AppendEvent(Turn("user", "Question: " \o query))
           /\ \A k \in 1..((Len(told) - 1) \div 2) :
                  /\ IsAppendEvent(told[2 * k])
                  /\ told[2 * k + 1] = CallbackEvent(told[2 * k].b)
                  /\ told[2 * k].b # system_prompt
                  /\ told[2 * k].b # "Question: " \o query

\* C13 witness: a run with a callback has returned after two iterations, the
\* first with a tool observation
C13_Witness ==
    /\ callback
    /\ pc = "returned"
    /\ Len(RunReplies) = 2
    /\ \E i \in 1..Len(events) : IsToolEvent(events[i])
    /\ Len(SelectSeq(events, IsCallbackEvent)) >= 3

\* the registry keys that equal the tool name parsed from a reply when
\* letter case is ignored
RegisteredNames == { "calculate", "get_weather" }
NamesIgnoringCase ==
    [r \in Replies |->
        { n \in RegisteredNames :
              ParsedAction[r].found /\ EqIgnoreCase(ParsedAction[r].tool, n) }]

\* C14: a reply with PAUSE and without `Answer:` whose Action line names a
\* string that differs from a registry key only in letter case is dispatched
\* to the tool under that key: a tool is called in its iteration.
C14_CaseInsensitiveDispatch ==
    \A i \in 1..Len(events) :
        (/\ IsModelReply(events[i])
         /\ events[i].b \in PauseReplies
         /\ NoAddToolSince
         /\ \E k \in 1..Len(tools) :
                tools[k].name \in NamesIgnoringCase[events[i].b])
        => Len(IterationToolCalls(i)) = 1

\* C15: when run_loop is given an override of the ceiling, 0 included, the
\* run makes no more model calls than the override.
C15_OverrideIsCeiling ==
    (runs > 0 /\ max_iterations_arg.given)
    => Len(ModelCalls) <= max_iterations_arg.value

\* C16: the registry holds one tool per name, the one registered last under
\* that name, and the stored system prompt is the prompt rendered from the
\* registry.
C16_RegistryAndPrompt ==
    /\ \A i, j \in 1..Len(tools) : tools[i].name = tools[j].name => i = j
    /\ system_prompt = _create_system_prompt(tools)
    /\ \A i \in 1..Len(events) :
           (/\ events[i].ev = "add_tool"
            /\ \A j \in (i + 1)..Len(events) :
                   ~(events[j].ev = "add_tool" /\ events[j].a = events[i].a))
           => \E k \in 1..Len(tools) : tools[k] = Tool(events[i].a, events[i].b)

\* C16 witness: after a run with the registry of construction, add_tool has
\* replaced the tool registered under calculate
C16_Witness ==
    /\ add_tools >= 1
    /\ messages # <<>>
    /\ messages[1].content =
           _create_system_prompt(<< Tool("calculate", "e.g. calculate: 4 * 7") >>)
    /\ tools = << Tool("calculate", "e.g. calculate: 2 + 2") >>
    /\ events[Len(events)].ev = "add_tool"

\* C17: at every model call the system turn of the conversation holds the
\* prompt rendered from the registry as it is then.
C17_SystemTurnCurrent ==
    pc = "awaiting_model"
    => /\ messages[1].role = "system"
       /\ messages[1].content = _create_system_prompt(tools)

\* the text json.dumps(mapping, indent=2) gives for the mappings safe_execute
\* returns here: the weather mapping and the mappings with the key "error"
ExpectedRendering(m) ==
    IF m = << <<"city", "str", "London">>, <<"temperature", "num", "18.5">> >>
    THEN "{\n  \"city\": \"London\",\n  \"temperature\": 18.5\n}"
    ELSE "{\n  \"" \o m[1][1] \o "\": \"" \o m[1][3] \o "\"\n}"

\* reply event i has PAUSE, no `Answer:`, and an action that names a key of
\* the registry
NamesRegisteredTool(i) ==
    /\ IsModelReply(events[i])
    /\ events[i].b \in PauseReplies
    /\ ParsedAction[events[i].b].found
    /\ NoAddToolSince
    /\ \E k \in 1..Len(tools) : tools[k].name = ParsedAction[events[i].b].tool

\* no tool is called after the iteration of event i, so that exec_log is the
\* safe_execute call of that iteration
LastDispatch(i) ==
    \A j \in NextModelAfter(i)..Len(events) : ~IsToolEvent(events[j])

\* C20 as stated: a reply with PAUSE and without `Answer:` whose action names
\* a registered tool calls that tool's safe_execute once, with the parsed
\* argument text, between the model call and the next one, and the injected
\* user turn is `Observation: ` followed by the rendering of the mapping
\* safe_execute returned.
C20_ObservationIsRendering ==
    \A i \in 1..Len(events) :
        NamesRegisteredTool(i)
        => /\ IterationToolCalls(i) =
                  << ToolEvent(ParsedAction[events[i].b].tool,
                               ParsedAction[events[i].b].args) >>
           /\ LastDispatch(i)
              => /\ exec_log.called
                 /\ exec_log.name = ParsedAction[events[i].b].tool
                 /\ exec_log.args = ParsedAction[events[i].b].args
                 /\ IterationAppends(i) =
                        << AppendEvent(Turn("assistant", events[i].b)),
                           AppendEvent(Turn("user",
                               "Observation: " \o JsonDumps(exec_log.result.value))) >>

\* C20 amended: as above, and the injected user turn is `Observation: `
\* followed by the indented JSON text of the mapping safe_execute returned
\* when json.dumps can encode the mapping; when it cannot, the turn is
\* `Observation: Error executing tool '<name>': ` followed by the message of
\* the TypeError.
C20_RegisteredToolDispatch ==
    \A i \in 1..Len(events) :
        NamesRegisteredTool(i)
        => /\ IterationToolCalls(i) =
                  << ToolEvent(ParsedAction[events[i].b].tool,
                               ParsedAction[events[i].b].args) >>
           /\ LastDispatch(i)
              => /\ exec_log.called
                 /\ exec_log.name = ParsedAction[events[i].b].tool
                 /\ exec_log.args = ParsedAction[events[i].b].args
                 /\ exec_log.result.kind = "return"
                 /\ IterationAppends(i) =
                        << AppendEvent(Turn("assistant", events[i].b)),
                           AppendEvent(Turn("user",
                               IF \A k \in 1..Len(exec_log.result.value) :
                                      exec_log.result.value[k][2] # "obj"
                               THEN "Observation: "
                                    \o ExpectedRendering(exec_log.result.value)
                               ELSE "Observation: Error executing tool '"
                                    \o ParsedAction[events[i].b].tool
                                    \o "': Object of type datetime is not JSON serializable")) >>

\* C20 witness: safe_execute returned a mapping with a value json.dumps
\* cannot encode and the run is at its next model call
C20_Witness ==
    /\ exec_log.called
    /\ exec_log.result.kind = "return"
    /\ \E k \in 1..Len(exec_log.result.value) : exec_log.result.value[k][2] = "obj"
    /\ pc = "awaiting_model"
    /\ \E i \in 1..Len(events) : NamesRegisteredTool(i) /\ LastDispatch(i)

\* execute returned, and what it returned is no error report
Succeeded ==
    /\ tool_outcome.kind = "return"
    /\ \A i \in 1..Len(tool_outcome.value.v) : tool_outcome.value.v[i][1] # "error"

\* C19 as stated: on every input on which the execute of calculate,
\* get_weather or get_forecast does not succeed, it fails with a
\* ToolExecutionError that carries a message.
C19_FailsWithToolExecutionError ==
    (tool_pc = "done" /\ ~Succeeded)
    => /\ tool_outcome.kind = "raise"
       /\ tool_outcome.exc = "ToolExecutionError"
       /\ tool_outcome.message # ""

\* C19 amended: the execute of calculate returns on every input, the mapping
\* with the key `result` or, for a bad expression, the mapping with the key
\* `error` and a text that starts with `Calculation error: `.  The execute
\* of get_weather and of get_forecast fails with ConfigurationError when the
\* tool has no API key, with WeatherAPIError when the request fails or the
\* response lacks a key, and with the IndexError or TypeError of the failing
\* subscript on another unexpected shape; it returns on the complete
\* response.  No execute fails with ToolExecutionError, and every failure
\* carries a message.
C19_ToolFailures ==
    tool_pc = "done"
    => /\ tool_outcome.kind = "raise"
          => tool_outcome.exc # "ToolExecutionError" /\ tool_outcome.message # ""
       /\ tool_input.tool = "calculate"
          => /\ tool_outcome.kind = "return"
             /\ Len(tool_outcome.value.v) = 1
             /\ \/ /\ tool_outcome.value.v[1][1] = "result"
                   /\ tool_outcome.value.v[1][2].t = "num"
                \/ /\ tool_outcome.value.v[1][1] = "error"
                   /\ tool_outcome.value.v[1][2].t = "str"
                   /\ StartsWith(tool_outcome.value.v[1][2].v, "Calculation error: ")
       /\ tool_input.tool \in { "get_weather", "get_forecast" }
          => IF tool_input.api_key = ""
             THEN /\ tool_outcome.kind = "raise"
                  /\ tool_outcome.exc = "ConfigurationError"
             ELSE IF tool_input.http.kind = "raise"
             THEN /\ tool_outcome.kind = "raise"
                  /\ tool_outcome.exc = "WeatherAPIError"
                  /\ StartsWith(tool_outcome.message, "Failed to fetch weather data: ")
             ELSE IF tool_input.http.value \in { CompleteWeather, ForecastOf(3) }
             THEN Succeeded
             ELSE IF /\ tool_input.http.value.t = "obj"
                     /\ \A i \in 1..Len(tool_input.http.value.v) :
                            tool_input.http.value.v[i][1] #
                                (IF tool_input.tool = "get_weather"
                                 THEN "name" ELSE "list")
             THEN /\ tool_outcome.kind = "raise"
                  /\ tool_outcome.exc = "WeatherAPIError"
                  /\ StartsWith(tool_outcome.message, "Unexpected API response format: ")
             ELSE \/ Succeeded
                  \/ /\ tool_outcome.kind = "raise"
                     /\ tool_outcome.exc \in { "WeatherAPIError", "IndexError", "TypeError" }

\* C19 witness: calculate was given an expression that divides by zero and
\* returned the mapping with the key `error`
C19_Witness ==
    /\ tool_pc = "done"
    /\ tool_input.tool = "calculate"
    /\ tool_input.expr = Parsed(BinOp(Num(1), "FloorDiv", Num(0)))
    /\ tool_outcome.kind = "return"
    /\ tool_outcome.value.v[1][1] = "error"

\* the turns of the conversation that thread t appended, in their order
TurnsOf(t) ==
    LET at == SelectSeq([i \in 1..Len(authors) |-> i],
                        LAMBDA i : authors[i] = t)
    IN  [k \in 1..Len(at) |-> messages[at[k]]]

IsSuffix(s, whole) ==
    /\ Len(s) <= Len(whole)
    /\ SubSeq(whole, Len(whole) - Len(s) + 1, Len(whole)) = s

\* thread t may call run_loop within the bounds of the model
MayEnter(t) ==
    /\ thread[t].pc = "idle"
    /\ \A u \in Threads \ { t } : thread[u].max_iterations + 1 <= MaxTotalCalls

\* C18: run_loop takes no lock: whatever the other invocation is doing, a
\* thread can call run_loop and an invocation in progress can take its next
\* step; and the turns of both invocations go to the one conversation, which
\* holds, for each thread, the turns it appended since the last reset in the
\* order it appended them.
C18_NoLockOneConversation ==
    /\ Len(authors) = Len(messages)
    /\ \A t \in Threads :
           /\ IsSuffix(TurnsOf(t), appended[t])
           /\ MayEnter(t)
              => ENABLED (\E override \in Overrides, rc \in BOOLEAN :
                              Enter(t, Queries[t], override, rc))
           /\ thread[t].pc = "reset" => ENABLED Reset(t)
           /\ thread[t].pc = "question" => ENABLED AppendQuestion(t)
           /\ thread[t].pc = "loop" => ENABLED EnterLoop(t)
           /\ thread[t].pc = "in_call"
              => ENABLED (\E provider \in ThreadProviderOutcomes :
                              Receive(t, provider))
           /\ thread[t].pc = "reply"
              => ENABLED (\E outcome \in ThreadExecOutcomes : Process(t, outcome))

\* C18 witness: the reply of thread 1 is appended directly after the
\* question of thread 2, and the model call of thread 2 in progress has sent
\* the question of thread 1
C18_Witness ==
    /\ \E i \in 2..Len(messages) :
           /\ authors[i] = 1 /\ messages[i].role = "assistant"
           /\ authors[i - 1] = 2 /\ messages[i - 1].role = "user"
    /\ thread[2].pc = "in_call"
    /\ \E j \in 1..Len(thread[2].request) :
           thread[2].request[j] = Turn("user", "Question: hello")

\* the replies with neither marker
NoMarkerReplies ==
    { r \in Replies : ~Contains(r, "Answer:") /\ ~Contains(r, "PAUSE") }

\* the number of model calls of the run up to event i
ModelCallsUpTo(i) == Len(SelectSeq(SubSeq(events, 1, i), IsModelEvent))

\* C21: a reply with neither `Answer:` nor `PAUSE` executes no tool, also
\* when it holds an Action line naming a registered tool; the turn appended
\* after it is the user turn with the fixed text about the expected format;
\* and the iteration counts: the counter has moved to the number of this
\* model call, and the run has returned if that number is the ceiling.
C21_NoMarkersNoDispatch ==
    \A i \in 1..Len(events) :
        (IsModelReply(events[i]) /\ events[i].b \in NoMarkerReplies)
        => /\ IterationToolCalls(i) = <<>>
           /\ IterationAppends(i) =
                  << AppendEvent(Turn("assistant", events[i].b)),
                     AppendEvent(Turn("user",
                         "Observation: Expected 'Action: tool_name: arguments' followed by 'PAUSE'. Please follow the format.")) >>
           /\ iteration >= ModelCallsUpTo(i)
           /\ ModelCallsUpTo(i) <= max_iterations
           /\ ModelCallsUpTo(i) = max_iterations
              => pc = "returned" /\ NextModelAfter(i) > Len(events)

\* C21 witness: the only reply of a run of ceiling 1 holds an Action line
\* for the registered tool calculate and no PAUSE, and the run has returned
C21_Witness ==
    /\ pc = "returned"
    /\ max_iterations = 1
    /\ Len(RunReplies) = 1
    /\ RunReplies[1] \in NoMarkerReplies
    /\ ParsedAction[RunReplies[1]].found
    /\ HasKey(tools, ParsedAction[RunReplies[1]].tool)

\* C22: a reply that contains `Answer:` executes no tool and no turn is
\* appended after the assistant turn of the reply, also when the reply holds
\* PAUSE and an Action line naming a registered tool: the conversation ends
\* with that assistant turn.
C22_AnswerBeforeDispatch ==
    \A i \in 1..Len(events) :
        (IsModelReply(events[i]) /\ events[i].b \in AnswerReplies)
        => /\ IterationToolCalls(i) = <<>>
           /\ IterationAppends(i) = << AppendEvent(Turn("assistant", events[i].b)) >>
           /\ \A j \in (i + 1)..Len(events) : ~IsToolEvent(events[j])
           /\ NoResetSince
              => messages[Len(messages)] = Turn("assistant", events[i].b)

\* C22 witness: the first reply of a run holds the answer marker, PAUSE and
\* an Action line for the registered tool calculate
C22_Witness ==
    /\ pc = "returned"
    /\ Len(RunReplies) = 1
    /\ RunReplies[1] \in AnswerReplies
    /\ Contains(RunReplies[1], "PAUSE")
    /\ ParsedAction[RunReplies[1]].found
    /\ HasKey(tools, ParsedAction[RunReplies[1]].tool)
    /\ messages[Len(messages)].role = "assistant"

\* the text s holds, from index i, the literal `Action: ` in any letter
\* case, a name of letters and underscores up to index j, `: `, and a
\* non-empty rest of the line up to index e
ActionLineAt(s, i, j, e) ==
    /\ i + 8 < j /\ j + 2 < e /\ e <= Len(s) + 1
    /\ EqIgnoreCase(SubSeq(s, i, i + 7), "Action: ")
    /\ \A k \in (i + 8)..(j - 1) :
           Char(s, k) = "_" \/ Char(s, k) \in UpperSet \cup LowerSet
    /\ SubSeq(s, j, j + 1) = ": "
    /\ \A k \in (j + 2)..(e - 1) : Char(s, k) # "\n"
    /\ e = Len(s) + 1 \/ Char(s, e) = "\n"

\* the indices where an action line starts
ActionLineStarts(s) ==
    { i \in 1..Len(s) :
          \E j \in (i + 9)..Len(s) : \E e \in (j + 3)..(Len(s) + 1) :
              ActionLineAt(s, i, j, e) }

\* C23: _parse_action returns "no action" exactly when the reply holds no
\* action line; otherwise it returns the name and the arguments of the
\* action line that starts first in the reply, whatever comes before and
\* after that line.
C23_FirstActionLine ==
    parse_pc = "done"
    => LET starts == ActionLineStarts(parse_input)
       IN  /\ parse_result.found <=> starts # {}
           /\ starts = {} => parse_result = NoAction
           /\ starts # {}
              => LET i == CHOOSE m \in starts : \A o \in starts : m <= o
                 IN  \E j \in (i + 9)..Len(parse_input) :
                     \E e \in (j + 3)..(Len(parse_input) + 1) :
                         /\ ActionLineAt(parse_input, i, j, e)
                         /\ parse_result.tool = SubSeq(parse_input, i + 8, j - 1)
                         /\ parse_result.args = SubSeq(parse_input, j + 2, e - 1)

\* C23 witness: a reply with two action lines, after a line the pattern
\* does not match, is parsed to the first of the two
C23_Witness ==
    /\ parse_pc = "done"
    /\ parse_input = "Action: t2: x\nAction: calculate: 2 + 2\nAction: get_forecast: Paris\nPAUSE"
    /\ parse_result = [found |-> TRUE, tool |-> "calculate", args |-> "2 + 2"]

\* the three ways a run_loop invocation ends
EndedByAnswer ==
    /\ pc = "returned"
    /\ RunReplies # <<>>
    /\ RunReplies[Len(RunReplies)] \in AnswerReplies
    /\ ~EndsWith(result, "\nExceeded maximum iterations without reaching an answer.")
EndedByBudget ==
    /\ pc = "returned"
    /\ iteration = max_iterations
    /\ \A i \in 1..Len(RunReplies) : RunReplies[i] \notin AnswerReplies
    /\ EndsWith(result, "\nExceeded maximum iterations without reaching an answer.")
EndedByModelFailure ==
    /\ pc = "raised"
    /\ raised.type = "LLMAPIError"
    /\ ModelCalls # <<>>
    /\ IsModelFailure(ModelCalls[Len(ModelCalls)])

\* an invocation in progress is below its ceiling, and one that has ended
\* ended in exactly one of the three ways
WithinCeilingAndEndedOneWay ==
    runs > 0
    => /\ iteration <= max_iterations
       /\ Len(ModelCalls) = iteration
       /\ pc = "awaiting_model" => iteration < max_iterations
       /\ pc # "awaiting_model"
          => \/ EndedByAnswer /\ ~EndedByBudget /\ ~EndedByModelFailure
             \/ ~EndedByAnswer /\ EndedByBudget /\ ~EndedByModelFailure
             \/ ~EndedByAnswer /\ ~EndedByBudget /\ EndedByModelFailure

\* C24: when every model call and every tool call returns or raises, every
\* run_loop invocation ends, in exactly one of three ways: by a reply with
\* `Answer:`, by the iteration counter reaching the ceiling, or by the error
\* of a failed model call; until then the counter is below the ceiling,
\* whatever the iterations were.
C24_RunLoopEnds ==
    /\ []WithinCeilingAndEndedOneWay
    /\ (pc = "awaiting_model") ~> (EndedByAnswer \/ EndedByBudget \/ EndedByModelFailure)

\* C24 witness: a run of ceiling 2 has ended by its budget after a reply
\* that names an unknown tool and a reply whose tool call raised
C24_Witness ==
    /\ EndedByBudget
    /\ max_iterations = 2
    /\ exec_log.called
    /\ exec_log.outcome.kind = "raise"
    /\ \E i \in 1..Len(RunReplies) :
           /\ RunReplies[i] \in PauseReplies
           /\ ParsedAction[RunReplies[i]].tool = "unknown_tool"

\* the run has returned and its last reply does not hold the answer marker
ReturnedWithoutAnswer ==
    /\ pc = "returned"
    /\ RunReplies # <<>>
    /\ RunReplies[Len(RunReplies)] \notin AnswerReplies

\* the index of the last model call among the events
LastModelCall ==
    CHOOSE i \in 1..Len(events) :
        IsModelEvent(events[i]) /\ NextModelAfter(i) > Len(events)

\* C26: the last iteration of a run that ends by its budget is processed as
\* the others are: a reply whose action names a registered tool is
\* dispatched, the observation or corrective text is appended as a user
\* turn after the assistant turn and given to the callback, and no model
\* call follows; the conversation the run leaves ends with that user turn.
C26_LastIterationProcessed ==
    ReturnedWithoutAnswer
    => LET i == LastModelCall
           reply == events[i].b
           action == ParsedAction[reply]
           appends == IterationAppends(i)
       IN  /\ iteration = max_iterations
           /\ Len(appends) = 2
           /\ appends[1] = AppendEvent(Turn("assistant", reply))
           /\ appends[2].a = "user"
           /\ StartsWith(appends[2].b, "Observation: ")
           /\ (reply \in PauseReplies /\ action.found
               /\ HasKey(tools, action.tool) /\ NoAddToolSince)
              => IterationToolCalls(i) = << ToolEvent(action.tool, action.args) >>
           /\ callback
              => \E k \in (i + 1)..(Len(events) - 1) :
                     events[k] = appends[2] /\ events[k + 1] = CallbackEvent(appends[2].b)
           /\ NoResetSince
              => /\ messages[Len(messages)] = Turn("user", appends[2].b)
                 /\ messages[Len(messages) - 1] = Turn("assistant", reply)

\* C26 witness: a run of ceiling 2 with a callback has returned by its
\* budget, and its second reply was dispatched to the registered tool
C26_Witness ==
    /\ ReturnedWithoutAnswer
    /\ callback
    /\ max_iterations = 2
    /\ Len(RunReplies) = 2
    /\ IterationToolCalls(LastModelCall) # <<>>
    /\ messages[Len(messages)].role = "user"

\* the question turn of the run in progress
QuestionTurn == Turn("user", "Question: " \o query)

\* C27: the step in which a model call fails leaves the conversation as it
\* was before the call, with the question of the run in it and every reply
\* and observation of the earlier iterations; and a run_loop call without
\* reset that follows appends its question to exactly that conversation.
C27_FailureKeepsConversation ==
    [][/\ (pc = "awaiting_model" /\ pc' = "raised")
          => /\ messages' = messages
             /\ \E k \in 1..Len(messages') :
                    /\ messages'[k] = QuestionTurn
                    /\ Len(messages') - k = 2 * Len(RunReplies)
       /\ (pc = "raised" /\ runs' = runs + 1 /\ ~reset_conversation')
          => /\ pre_messages' = messages
             /\ messages' = Append(messages, Turn("user", "Question: " \o query'))
      ]_vars

\* C27 witness: the model call of the second iteration has failed; the
\* conversation holds the question, the first reply and its observation
C27_Witness ==
    /\ pc = "raised"
    /\ runs = 1
    /\ Len(ModelCalls) = 2
    /\ IsModelFailure(ModelCalls[2])
    /\ Len(messages) = 4
    /\ messages[2] = QuestionTurn
    /\ messages[4].role = "user"

\* the attempts before the last one all raised a RequestException
EarlierAttemptsFailed ==
    \A k \in 1..(Len(request_log) - 1) : ~Succeeds(request_log[k])

\* C28: make_request makes at most `retries` attempts, and the call ends
\* either by returning the response mapping of its first successful attempt,
\* which is its last attempt, or by raising APIError after exactly `retries`
\* failed attempts; it never returns without a response mapping.
C28_ReturnsMappingOrRaises ==
    /\ request_attempts <= request_retries
    /\ Len(request_log) = request_attempts
    /\ request_pc = "done"
       => \/ /\ request_result.kind = "return"
             /\ request_result.value.t = "obj"
             /\ request_attempts >= 1
             /\ Succeeds(request_log[request_attempts])
             /\ request_result.value = ResponseMapping(request_log[request_attempts])
             /\ EarlierAttemptsFailed
          \/ /\ request_result.kind = "raise"
             /\ request_result.exc = "APIError"
             /\ request_attempts = request_retries
             /\ \A k \in 1..request_attempts : ~Succeeds(request_log[k])


\* the handler is past `await thinking_msg.remove()` of the try block or
\* suspended in it: what it does next is the choice between the final
\* answer and the fallback message, or it has made it
AtOrPastDecision(w) ==
    ~w.in_except /\ w.pc \in { "remove", "send_answer", "send_last", "end" }

\* the final answer the contents give when processed in their order
RECURSIVE AnswerOf(_)
AnswerOf(contents) ==
    IF contents = <<>> THEN None
    ELSE IF Contains(contents[Len(contents)], "Answer:")
         THEN Some(Strip(AfterFirst(contents[Len(contents)], "Answer:")))
         ELSE AnswerOf(SubSeq(contents, 1, Len(contents) - 1))

\* C25: in on_message, the strings passed to sync_callback during run_loop
\* are processed by the process_callbacks worker in the order they were
\* passed; none is processed while run_loop is running; all of them are
\* processed, and the queue is empty, when the worker is cancelled and when
\* the handler chooses between the final answer and the fallback message
C25_CallbacksDrainedInOrder ==
    \A h \in 1..Len(chat) :
        LET w == chat[h]
        IN  /\ IsPrefix(w.processed, w.passed)
            /\ w.pc = "call_run_loop" => w.processed = <<>> /\ w.queue = <<>>
            /\ w.cancel =>
                   /\ w.processed = w.passed
                   /\ w.queue = <<>>
                   /\ \A i \in 1..Len(w.passed) : ~InReady(PutTask(h, w.passed[i]))
            /\ AtOrPastDecision(w) =>
                   /\ w.processed = w.passed
                   /\ w.final_answer = AnswerOf(w.passed)

\* a handler whose run_loop passed three strings, the last one with the
\* answer, has sent the answer after the worker processed them
C25_Witness ==
    \E h \in 1..Len(chat) :
        /\ chat[h].pc = "end"
        /\ Len(chat[h].passed) >= 3
        /\ chat[h].processed = chat[h].passed
        /\ chat[h].worker = "done"
        /\ \E i \in 1..Len(chat[h].sent) :
               chat[h].sent[i] = Message("Hi there!")


\* part is a run of consecutive elements of whole
IsInfix(part, whole) ==
    \E at \in 0..(Len(whole) - Len(part)) :
        SubSeq(whole, at + 1, at + Len(part)) = part

\* handler g called run_loop before handler h did, for another session
EarlierOfOtherSession(g, h) ==
    /\ 0 < chat[g].run
    /\ chat[g].run < chat[h].run
    /\ chat[g].session # chat[h].session

\* C29: the chat sessions share the one Agent and every message is run
\* with reset_conversation false: the conversation the model is called
\* with for a message of one session holds the turns that the earlier
\* messages of the other sessions appended, their questions included
C29_SessionsShareConversation ==
    \A h \in 1..Len(chat) :
        (chat[h].pc = "call_run_loop" /\ chat[h].run = runs
             /\ pc = "awaiting_model") =>
            /\ ~reset_conversation
            /\ \A g \in 1..Len(chat) :
                   EarlierOfOtherSession(g, h) =>
                       /\ Len(chat[g].turns) >= 1
                       /\ chat[g].turns[1].role = "user"
                       /\ IsInfix(chat[g].turns, messages)

\* the model is about to be called for the message of the second session
\* with the question and the answer of the first session in the conversation
C29_Witness ==
    \E g, h \in 1..Len(chat) :
        /\ chat[h].pc = "call_run_loop" /\ chat[h].run = runs
        /\ pc = "awaiting_model"
        /\ EarlierOfOtherSession(g, h)
        /\ Len(chat[g].turns) >= 2
        /\ chat[g].turns[1] = Turn("user", QuestionPrefix \o Queries[1])
        /\ IsInfix(chat[g].turns, messages)
        /\ query = Queries[2]

====
